---- MODULE Spec2Model ----
(***************************************************************************)
(* Verification model of lfamarciano/ModelosDeParalelismo.                 *)
(*                                                                         *)
(* Three execution backends compute windowed metrics over weather-station  *)
(* readings.  The module models                                            *)
(*   - the bounded local pool (approach_a_local_processing/process_local), *)
(*   - the RabbitMQ/Redis queue worker (approach_b_message_broker/worker), *)
(*   - the Celery producer (approach_b_message_broker/producer),           *)
(* each under a specification of its own (SpecLocal, SpecQueue,            *)
(* SpecProducer) over one set of variables.                                *)
(*                                                                         *)
(* Timestamps are whole minutes.  A float quotient a/b is kept exact as    *)
(* the reduced fraction [num, den].                                        *)
(***************************************************************************)
EXTENDS Integers, Sequences, FiniteSets, TLC

(***************************************************************************)
(* Bounds of the model.                                                    *)
(***************************************************************************)
\* longest input table (rows of data/dados_meteorologicos.csv)
MaxRows == 3
\* largest <num_processos> given on the command line (0 is accepted by main)
MaxProc == 2
\* largest elapsed time a run measures, in clock ticks
MaxElapsed == 2
\* most messages published to task_queue
MaxMsgs == 2
\* most consumers started with docker-compose --scale worker=N
MaxConsumers == 2
\* most readings of the one-station tables the statistical rule is run on
MaxSeries == 12

(***************************************************************************)
(* Program constants.                                                      *)
(***************************************************************************)
\* rolling("10min"), freq='10min'
WINDOW_MIN == 10
\* channel.basic_qos(prefetch_count=1)
PREFETCH_COUNT == 1
\* rolling(window=10, min_periods=1)
ROLLING_ROWS == 10

SENSORS == <<"temperatura", "umidade", "pressao">>

THRESHOLDS ==
    [temperatura |-> <<-10, 45>>, umidade |-> <<0, 100>>, pressao |-> <<940, 1060>>]

(***************************************************************************)
(* Input tables.  Station names follow data_generator (STA-%03d) and the   *)
(* region of station i is regions_list[(i-1) % 5], so that STA-001 and     *)
(* STA-006 share "Sudeste".  Strings have no order in TLC: the two Order   *)
(* sequences list the keys in Python's string order, which is the order    *)
(* groupby yields its groups in.                                           *)
(***************************************************************************)
StationOrder == <<"STA-001", "STA-002", "STA-006">>

RegionOrder == <<"Nordeste", "Sudeste">>

RegionOf(e) == IF e = "STA-002" THEN "Nordeste" ELSE "Sudeste"

Reading(t, e, temp, umid, pres) ==
    [timestamp |-> t, id_estacao |-> e, regiao |-> RegionOf(e),
     temperatura |-> temp, umidade |-> umid, pressao |-> pres]

\* The rows the input tables are drawn from, in file order (sorted neither
\* by station nor by time): one sensor out of bounds, two sensors out of
\* bounds, in bounds in another region, in bounds.
PoolReadings ==
    << Reading(1, "STA-006", 25, 60, 1100),
       Reading(3, "STA-001", 50, 120, 1012),
       Reading(2, "STA-002", 26, 55, 1010),
       Reading(0, "STA-001", 25, 60, 1012) >>

Range(s) == { s[i] : i \in DOMAIN s }

\* the rows of s at the positions in keep, in the order of s
RECURSIVE SubTable(_, _)
SubTable(s, keep) ==
    IF s = <<>> THEN <<>>
    ELSE LET rest == SubTable(SubSeq(s, 1, Len(s) - 1), keep)
         IN  IF Len(s) \in keep THEN Append(rest, s[Len(s)]) ELSE rest

\* Tables of at most MaxRows rows (the empty table included).
Tables ==
    { SubTable(PoolReadings, keep) :
        keep \in { k \in SUBSET (DOMAIN PoolReadings) : Cardinality(k) <= MaxRows } }

\* the columns data_generator writes to dados_meteorologicos.csv
AllColumns ==
    {"timestamp", "id_estacao", "regiao", "temperatura", "umidade", "pressao"}

\* headers a CSV handed to a backend may have: complete, or one sensor
\* column missing
Headers == {AllColumns} \cup { AllColumns \ {SENSORS[k]} : k \in 1..3 }

\* pd.read_csv keeps the columns of the header and nothing else
ReadCsv(rows, header) == [i \in DOMAIN rows |-> [c \in header |-> rows[i][c]]]

\* df[sensor] for each sensor of THRESHOLDS: KeyError on a missing column
HasSensorColumns(cols) == \A k \in 1..3 : SENSORS[k] \in cols

(***************************************************************************)
(* Arithmetic helpers.                                                     *)
(***************************************************************************)
RECURSIVE Gcd(_, _)
Gcd(a, b) == IF b = 0 THEN a ELSE Gcd(b, a % b)

Abs(x) == IF x < 0 THEN -x ELSE x

\* the float n / d (d > 0) as an exact reduced fraction
Frac(n, d) ==
    LET g == Gcd(Abs(n), d) IN [num |-> n \div g, den |-> d \div g]

RECURSIVE SumSeq(_)
SumSeq(s) == IF s = <<>> THEN 0 ELSE Head(s) + SumSeq(Tail(s))

CountTrue(s) == Cardinality({ i \in DOMAIN s : s[i] })

RECURSIVE Flatten(_)
Flatten(ss) == IF ss = <<>> THEN <<>> ELSE Head(ss) \o Flatten(Tail(ss))

(***************************************************************************)
(* pandas helpers.                                                         *)
(***************************************************************************)
\* an interval test that leaves both ends out
betweenOpen(v, lo, hi) == lo < v /\ v < hi

\* Series.between(lo, hi): both ends inclusive
between(v, lo, hi) == lo <= v /\ v <= hi

\* df.sort_values("timestamp"): numpy's quicksort falls back to insertion
\* sort below 17 elements, so on the tables modelled here the sort is stable.
RECURSIVE InsertByTimestamp(_, _)
InsertByTimestamp(s, r) ==
    IF s = <<>> THEN <<r>>
    ELSE IF s[Len(s)].timestamp <= r.timestamp THEN Append(s, r)
    ELSE Append(InsertByTimestamp(SubSeq(s, 1, Len(s) - 1), r), s[Len(s)])

RECURSIVE sort_values(_)
sort_values(s) ==
    IF s = <<>> THEN <<>>
    ELSE InsertByTimestamp(sort_values(SubSeq(s, 1, Len(s) - 1)), s[Len(s)])

\* a grouping that hands the whole table to every key
groupby_whole(d, col, order) ==
    LET keys == SelectSeq(order, LAMBDA k : \E i \in DOMAIN d : d[i][col] = k)
    IN  [n \in 1..Len(keys) |-> d]

\* [g for _, g in df.groupby(col)]: one group per key present, keys in
\* sorted order, the rows of a group in table order.
groupby(d, col, order) ==
    LET keys == SelectSeq(order, LAMBDA k : \E i \in DOMAIN d : d[i][col] = k)
    IN  [n \in 1..Len(keys) |-> SelectSeq(d, LAMBDA r : r[col] = keys[n])]

\* rolling("10min") over a time-sorted frame: the rows of the window of row
\* i are the rows j <= i with timestamp[j] > timestamp[i] - 10min.
RollingWindow(s, i) ==
    { j \in 1..i : s[j].timestamp > s[i].timestamp - WINDOW_MIN }

(***************************************************************************)
(* process_local.py: anomaly rule and the three workers.                   *)
(***************************************************************************)
\* ~df[sensor].between(min_val, max_val) for one row
Anormal(r, sensor) ==
    ~between(r[sensor], THRESHOLDS[sensor][1], THRESHOLDS[sensor][2])

detectar_anomalias(d) ==
    [i \in DOMAIN d |->
        d[i] @@ [temperatura_anormal |-> Anormal(d[i], "temperatura"),
                 umidade_anormal |-> Anormal(d[i], "umidade"),
                 pressao_anormal |-> Anormal(d[i], "pressao")]]

AnormalCol(sensor) ==
    CASE sensor = "temperatura" -> "temperatura_anormal"
      [] sensor = "umidade" -> "umidade_anormal"
      [] sensor = "pressao" -> "pressao_anormal"

\* the list worker_anomalias extends output_list with
worker_anomalias(estacao_df) ==
    LET id_est == estacao_df[1].id_estacao
        total == Len(estacao_df)
    IN  [k \in 1..3 |->
            LET anomalias ==
                    Cardinality({ i \in DOMAIN estacao_df :
                                    estacao_df[i][AnormalCol(SENSORS[k])] })
            IN  [id_estacao |-> id_est, sensor |-> SENSORS[k],
                 percentual_anomalias |-> Frac(100 * anomalias, total)]]

\* the list worker_coocorrencia appends to output_list (one dict)
worker_coocorrencia(estacao_df) ==
    LET s == sort_values(estacao_df)
        \* rolling.sum() > 0 for one sensor at row i
        hot(i, sensor) == \E j \in RollingWindow(s, i) : s[j][AnormalCol(sensor)]
        mask(i) == Cardinality({ k \in 1..3 : hot(i, SENSORS[k]) }) > 1
        num_periodos == Cardinality({ i \in DOMAIN s : mask(i) })
    IN  << [id_estacao |-> s[1].id_estacao,
            periodos_multianomalias_10min |-> num_periodos] >>

\* the frame worker_media_movel appends to output_list, as its rows
media_movel_frame(regiao_df) ==
    LET sorted == sort_values(regiao_df)
        regiao == sorted[1].regiao
        s == SelectSeq(sorted, LAMBDA r :
                ~(r.temperatura_anormal \/ r.umidade_anormal \/ r.pressao_anormal))
        mean(i, sensor) ==
            LET w == RollingWindow(s, i)
                vals == [j \in 1..i |-> IF j \in w THEN s[j][sensor] ELSE 0]
            IN  Frac(SumSeq(vals), Cardinality(w))
    IN  [i \in 1..Len(s) |->
            [temperatura |-> mean(i, "temperatura"),
             umidade |-> mean(i, "umidade"),
             pressao |-> mean(i, "pressao"),
             regiao |-> regiao,
             timestamp |-> s[i].timestamp]]

worker_media_movel(regiao_df) == << media_movel_frame(regiao_df) >>

(***************************************************************************)
(* Optional values: Python's None is the empty tuple, a present value x    *)
(* the one-element tuple <<x>>.  A file that does not exist is None.       *)
(***************************************************************************)
None == <<>>

Some(x) == <<x>>

(***************************************************************************)
(* validar_corretude (process_local.py and producer.py hold the same       *)
(* text): the ground truth outer-merged with the detected anomalies on     *)
(* (timestamp, id_estacao, sensor_anomalo); the count of 'both' rows is    *)
(* the number of matching (ground truth row, detected row) pairs.          *)
(***************************************************************************)
GroundTruthKey(t, e, sensor) ==
    [timestamp |-> t, id_estacao |-> e, sensor_anomalo |-> sensor]

\* the melted frame with the rows where is_anormal is False kept
melted(df_processado) ==
    Flatten([k \in 1..3 |->
        [i \in 1..Len(df_processado) |->
            GroundTruthKey(df_processado[i].timestamp, df_processado[i].id_estacao,
                           SENSORS[k])]])

\* df_processado.melt(...)[is_anormal]: per sensor column, the flagged rows
detectadas(df_processado) ==
    Flatten([k \in 1..3 |->
        LET flagged == SelectSeq(df_processado, LAMBDA r : r[AnormalCol(SENSORS[k])])
        IN  [i \in 1..Len(flagged) |->
                GroundTruthKey(flagged[i].timestamp, flagged[i].id_estacao, SENSORS[k])]])

validar_corretude(df_processado, gabarito_file) ==
    IF gabarito_file = None THEN None
    ELSE LET gabarito_df == gabarito_file[1]
             detectadas_df == detectadas(df_processado)
             both == { <<i, j>> \in (DOMAIN gabarito_df) \X (DOMAIN detectadas_df) :
                          gabarito_df[i] = detectadas_df[j] }
         IN  Some([verdadeiros_positivos |-> Cardinality(both)])

\* data/anomalias_reais.csv: absent, or the injected anomalies
Gabaritos ==
    { None,
      Some(<< GroundTruthKey(3, "STA-001", "temperatura"),
              GroundTruthKey(2, "STA-002", "pressao") >>) }

(***************************************************************************)
(* worker.py: is_anomaly and process_station.                              *)
(***************************************************************************)
\* a rule of mean +- 2 * std
TwoDeviations == 1 + 1

\* lower_bound = mean - 3 * std; upper_bound = mean + 3 * std
K_STD == 3

\* is_anomaly(series), exact on integer readings.  With n values of sum S,
\* n * sum(x^2) - S^2 = n * sum((x - mean)^2), and std is the sample
\* deviation (ddof = 1):
\*   n = 1  : std is NaN, "std == 0" is false, between(NaN, NaN) is false
\*            everywhere and its negation flags the reading;
\*   std = 0: nothing is flagged;
\*   else   : x is flagged iff |x - mean| > 3 * std, that is
\*            (n*x - S)^2 * (n - 1) > 3^2 * n * (n * sum(x^2) - S^2).
is_anomaly(series) ==
    LET n == Len(series)
        S == SumSeq(series)
        Q == n * SumSeq([i \in 1..n |-> series[i] * series[i]]) - S * S
    IN  IF n = 1 THEN [i \in 1..n |-> TRUE]
        ELSE IF Q = 0 THEN [i \in 1..n |-> FALSE]
        ELSE [i \in 1..n |->
                (n * series[i] - S) * (n * series[i] - S) * (n - 1)
                    > K_STD * K_STD * n * Q]

Column(d, col) == [i \in DOMAIN d |-> d[i][col]]

\* station_df[['temperatura', 'umidade', 'pressao']].apply(is_anomaly): the
\* columns of the mask are the three sensors and nothing else
MaskColumns == Range(SENSORS)

\* pd.Grouper(key='timestamp', freq='10min')
GrouperKey == "timestamp"

\* json.dumps(result)
json_dumps(x) == [json |-> x]

\* process_station(station_id): what the call does, [kind |-> "return",
\* value |-> ...] or [kind |-> "raise", exc |-> ...].  groupby with a Grouper
\* whose key is no column of the grouped frame raises KeyError("The grouper
\* name timestamp is not found"); the mask holds the sensor columns only.
process_station(ALL_DATA, station_id) ==
    LET station_df == SelectSeq(ALL_DATA, LAMBDA r : r.id_estacao = station_id)
        n == Len(station_df)
        anomaly_mask == [k \in 1..3 |-> is_anomaly(Column(station_df, SENSORS[k]))]
        pct(k) == Frac(100 * CountTrue(anomaly_mask[k]), n)
        bucket(i) == station_df[i].timestamp \div WINDOW_MIN
        buckets == { bucket(i) : i \in 1..n }
        \* periods = mask.groupby(Grouper).any(); periods.sum(axis=1)
        concurrent(b) ==
            Cardinality({ k \in 1..3 :
                \E i \in 1..n : bucket(i) = b /\ anomaly_mask[k][i] })
        num_concurrent_periods == Cardinality({ b \in buckets : concurrent(b) > 1 })
    IN  IF station_df = <<>> THEN [kind |-> "return", value |-> None]
        ELSE IF GrouperKey \notin MaskColumns
        THEN [kind |-> "raise", exc |-> "KeyError"]
        ELSE [kind |-> "return",
              value |-> Some([station |-> station_id,
                              percentual_anomalias |->
                                  [temperatura |-> pct(1), umidade |-> pct(2),
                                   pressao |-> pct(3)],
                              periodos_concorrentes |-> num_concurrent_periods])]

(***************************************************************************)
(* process_spark.py: the frames main defines.  A Spark frame has no row    *)
(* order, so a frame is the set of its rows.  window("timestamp", "10      *)
(* minutes") is the tumbling window a timestamp falls in, named here by    *)
(* its index timestamp \div 10.                                            *)
(***************************************************************************)
TumblingWindow(t) == t \div WINDOW_MIN

\* avg(sensor) over the rows of one group
Avg(rows, sensor) == Frac(SumSeq(Column(rows, sensor)), Len(rows))

\* moving_avg = clean_df.groupBy(window(...), "regiao").agg(avg ...)
spark_moving_avg(d) ==
    LET flagged == detectar_anomalias(d)
        clean_df == SelectSeq(flagged, LAMBDA r :
                        ~r.temperatura_anormal /\ ~r.umidade_anormal /\ ~r.pressao_anormal)
        keys == { <<TumblingWindow(clean_df[i].timestamp), clean_df[i].regiao>> :
                    i \in DOMAIN clean_df }
        rowsOf(k) == SelectSeq(clean_df, LAMBDA r :
                        TumblingWindow(r.timestamp) = k[1] /\ r.regiao = k[2])
    IN  { [window |-> k[1], regiao |-> k[2],
           media_temperatura |-> Avg(rowsOf(k), "temperatura"),
           media_umidade |-> Avg(rowsOf(k), "umidade"),
           media_pressao |-> Avg(rowsOf(k), "pressao")] : k \in keys }

\* cooc = multianomalias.filter(soma_anomalias > 1)
\*            .groupBy("id_estacao", window(...)).agg(countDistinct("timestamp"))
spark_cooc(d) ==
    LET flagged == detectar_anomalias(d)
        soma_anomalias(r) ==
            (IF r.temperatura_anormal THEN 1 ELSE 0) + (IF r.umidade_anormal THEN 1 ELSE 0)
                + (IF r.pressao_anormal THEN 1 ELSE 0)
        multi == SelectSeq(flagged, LAMBDA r : soma_anomalias(r) > 1)
        keys == { <<multi[i].id_estacao, TumblingWindow(multi[i].timestamp)>> :
                    i \in DOMAIN multi }
    IN  { [id_estacao |-> k[1], window |-> k[2],
           eventos |-> Cardinality({ multi[i].timestamp : i \in
                          { j \in DOMAIN multi : multi[j].id_estacao = k[1]
                              /\ TumblingWindow(multi[j].timestamp) = k[2] } })] :
          k \in keys }

(***************************************************************************)
(* metrics.py: calculate_metrics_sequentially, the reference engine, and   *)
(* the structuring of its per-station results in __main__.                 *)
(***************************************************************************)
StationRows(d, e) == SelectSeq(d, LAMBDA r : r.id_estacao = e)

\* position of row i of d among the rows of its station
PosInStation(d, i) == Cardinality({ j \in 1..i : d[j].id_estacao = d[i].id_estacao })

\* df.groupby('id_estacao')[sensors].transform(is_anomaly): aligned with d
anomaly_mask_df(d) ==
    [i \in DOMAIN d |->
        [sensor \in Range(SENSORS) |->
            is_anomaly(Column(StationRows(d, d[i].id_estacao), sensor))[PosInStation(d, i)]]]

StationsOf(d) == { d[i].id_estacao : i \in DOMAIN d }

\* anomaly_mask_df.groupby(df['id_estacao']).mean() * 100
percentual_anomalias_ref(d) ==
    LET mask == anomaly_mask_df(d)
    IN  [e \in StationsOf(d) |->
            [sensor \in Range(SENSORS) |->
                Frac(100 * Cardinality({ i \in DOMAIN d :
                                          d[i].id_estacao = e /\ mask[i][sensor] }),
                     Len(StationRows(d, e)))]]

\* rolling(window=10, min_periods=1): the row and the rows before it in the
\* group, ROLLING_ROWS at most
RowWindow(i) == { j \in 1..i : j > i - ROLLING_ROWS }

\* clean_df.groupby('regiao')[rolling_cols].rolling(window=10, min_periods=1)
\* .mean() for one region group, the group sorted by timestamp
rolling_rows_mean(s) ==
    LET mean(i, sensor) ==
            LET w == RowWindow(i)
                vals == [j \in 1..i |-> IF j \in w THEN s[j][sensor] ELSE 0]
            IN  Frac(SumSeq(vals), Cardinality(w))
    IN  [i \in DOMAIN s |->
            [temperatura |-> mean(i, "temperatura"), umidade |-> mean(i, "umidade"),
             pressao |-> mean(i, "pressao")]]

\* metrics['media_movel_regiao']: the retained readings sorted by
\* ['regiao', 'timestamp'], each joined with its three rolling means
media_movel_regiao_ref(d) ==
    LET mask == anomaly_mask_df(d)
        is_any_anomaly(i) == \E sensor \in Range(SENSORS) : mask[i][sensor]
        kept == { i \in DOMAIN d : ~is_any_anomaly(i) }
        clean_df == SubTable(d, kept)
        regioes == groupby(clean_df, "regiao", RegionOrder)
    IN  Flatten([n \in 1..Len(regioes) |->
            LET s == sort_values(regioes[n])
                m == rolling_rows_mean(s)
            IN  [i \in DOMAIN s |->
                    [regiao |-> s[i].regiao, timestamp |-> s[i].timestamp,
                     id_estacao |-> s[i].id_estacao,
                     temperatura_media_movel |-> m[i].temperatura,
                     umidade_media_movel |-> m[i].umidade,
                     pressao_media_movel |-> m[i].pressao]]])

\* metrics['periodos_concorrentes']: per station, the number of (station,
\* 10min bin) groups in which more than one sensor column has a flagged
\* reading; a station with no such group has no row
periodos_concorrentes_ref(d) ==
    LET mask == anomaly_mask_df(d)
        any(e, b, sensor) ==
            \E i \in DOMAIN d : /\ d[i].id_estacao = e
                                 /\ TumblingWindow(d[i].timestamp) = b
                                 /\ mask[i][sensor]
        periods(e) == { TumblingWindow(d[i].timestamp) :
                          i \in { j \in DOMAIN d : d[j].id_estacao = e } }
        count(e) == Cardinality({ b \in periods(e) :
                        Cardinality({ sensor \in Range(SENSORS) : any(e, b, sensor) }) > 1 })
    IN  [e \in { x \in StationsOf(d) : count(x) > 0 } |-> count(e)]

calculate_metrics_sequentially(d) ==
    [percentual_anomalias |-> percentual_anomalias_ref(d),
     media_movel_regiao |-> media_movel_regiao_ref(d),
     periodos_concorrentes |-> periodos_concorrentes_ref(d)]

\* final_json_output["resultados_por_estacao"]: metric_3.get(station, 0)
resultados_por_estacao(d, metrics) ==
    [station \in StationsOf(d) |->
        [percentual_anomalias |-> metrics.percentual_anomalias[station],
         periodos_concorrentes |->
            IF station \in DOMAIN metrics.periodos_concorrentes
            THEN metrics.periodos_concorrentes[station] ELSE 0]]

(***************************************************************************)
(* State.                                                                  *)
(***************************************************************************)
VARIABLES
    \* --- inputs shared by the backends
    df,             \* data/dados_meteorologicos.csv as read by pd.read_csv
    gabarito,       \* data/anomalias_reais.csv (None: no such file)
    record,         \* data/tempo_execucao.json (None: no such file)
    columns,        \* the header of data/dados_meteorologicos.csv
    \* --- process_local.py
    max_proc,       \* int(sys.argv[1])
    pc,             \* control point of main / run_with_limited_processes
    metric,         \* 1: processa_anomalias, 2: processa_coocorrencias,
                    \* 3: processa_medias_moveis
    launched,       \* number of groups the for loop has started a process for
    processos,      \* the list processos (process = index of its group)
    scan_i,         \* position of "for p in processos" inside the while loop
    join_j,         \* position of the final "for p in processos: p.join()"
    proc,           \* state of each worker process of the current call
    resultados,     \* the manager.list() of the current call
    returned,       \* what each processa_* returned (None: not yet)
    died,           \* history: <<metric, process>> that died before appending
    removed,        \* history: processes removed inside the slot-wait loop
    \* --- worker.py (one callback per consumer), RabbitMQ and Redis
    body,           \* body[m]: the station id message m carries
    queue,          \* task_queue: the messages ready for delivery
    unacked,        \* unacked[c]: messages delivered to consumer c, not acked
    cpc,            \* cpc[c]: control point of consumer c
    cur,            \* cur[c]: the message consumer c's callback runs for
    res,            \* res[c]: result, the value process_station returned
    store,          \* the Redis hash approach_b_results
    acks,           \* history: one entry per basic_ack
    calls,          \* history: calls[m], process_station calls made for m
    \* --- producer.py and the Celery tasks of its group
    ppc,            \* control point of the script
    tstate,         \* tstate[t]: state of task t of all_tasks
    duration_ms,    \* duration_ms (None: not yet bound)
    get_outcome,    \* history: how result.get(timeout=600) ended
    revoked,        \* history: result.revoke(terminate=True) was called
    \* --- the metric engines run one after the other on the same table
    computed,       \* computed[f]: what engine function f returned
    \* --- compare_results.py
    data1,          \* json.load of the file sys.argv[1] names
    data2,          \* json.load of the file sys.argv[2] names
    \* --- dashboard.py
    paralelismos,   \* the parallelism levels of the sidebar
    dpc,            \* control point of rodar_experimento
    run_i,          \* position in the loops of iniciar_experimentos
    output_file,    \* data/tempo_execucao.json as the dashboard sees it
    wrote,          \* history: what the backend launched last wrote
    tempos          \* experimentos_tempos.csv, one entry per row

inputVars == <<df, gabarito, record, columns>>

poolVars ==
    <<max_proc, pc, metric, launched, processos, scan_i, join_j, proc,
      resultados, returned, died, removed>>

queueVars == <<body, queue, unacked, cpc, cur, res, store, acks, calls>>

prodVars == <<ppc, tstate, duration_ms, get_outcome, revoked>>

metricVars == <<computed>>

cmpVars == <<data1, data2>>

dashVars == <<paralelismos, dpc, run_i, output_file, wrote, tempos>>

toolVars == <<cmpVars, dashVars>>

vars == <<inputVars, poolVars, queueVars, prodVars, metricVars, toolVars>>

\* the parts of the state a backend that is not running leaves as they are
PoolOff ==
    /\ max_proc = 1
    /\ pc = "off"
    /\ metric = 1
    /\ launched = 0
    /\ processos = <<>>
    /\ scan_i = 1
    /\ join_j = 1
    /\ proc = <<>>
    /\ resultados = <<>>
    /\ returned = [k \in 1..3 |-> None]
    /\ died = {}
    /\ removed = {}

QueueOff ==
    /\ body = <<>>
    /\ queue = <<>>
    /\ unacked = <<>>
    /\ cpc = <<>>
    /\ cur = <<>>
    /\ res = <<>>
    /\ store = <<>>
    /\ acks = {}
    /\ calls = <<>>

ProducerOff ==
    /\ ppc = "off"
    /\ tstate = <<>>
    /\ duration_ms = None
    /\ get_outcome = "none"
    /\ revoked = FALSE

MetricsOff == computed = <<>>

CompareOff ==
    /\ data1 = <<>>
    /\ data2 = <<>>

DashboardOff ==
    /\ paralelismos = <<>>
    /\ dpc = "off"
    /\ run_i = 1
    /\ output_file = <<>>
    /\ wrote = <<>>
    /\ tempos = <<>>

ToolsOff == CompareOff /\ DashboardOff

(***************************************************************************)
(* process_local.py: main, processa_*, run_with_limited_processes.         *)
(***************************************************************************)
\* main line 109: df = detectar_anomalias(df)
DF == detectar_anomalias(df)

\* grupos of processa_anomalias / processa_coocorrencias / processa_medias_moveis
Grupos(k) ==
    IF k = 3 THEN groupby(DF, "regiao", RegionOrder)
    ELSE groupby(DF, "id_estacao", StationOrder)

\* what the worker of call k sends to the manager list for one group
Worker(k, grupo) ==
    CASE k = 1 -> worker_anomalias(grupo)
      [] k = 2 -> worker_coocorrencia(grupo)
      [] k = 3 -> worker_media_movel(grupo)

\* a list store that replaces the content instead of extending it
ManagerOverwrite(list, items) == items

\* output_list.extend / output_list.append: one call served by the manager
ManagerExtend(list, items) == list \o items

\* the slot test written with > instead of >=
WhileCondGt(n, m) == n > m

\* while len(processos) >= max_proc
WhileCond(n, m) == n >= m

\* Process.is_alive()
IsAlive(st) == st \in {"alive", "appended"}

\* a join that does not wait
JoinNoWait(st) == TRUE

\* p.join() returns once p is no longer alive
JoinReturns(st) == ~IsAlive(st)

\* processos.remove(p)
Remove(s, x) == SelectSeq(s, LAMBDA y : y # x)

Alive == { p \in DOMAIN proc : IsAlive(proc[p]) }

NewCall(k) ==
    /\ metric' = k
    /\ launched' = 0
    /\ processos' = <<>>
    /\ scan_i' = 1
    /\ join_j' = 1
    /\ proc' = [p \in 1..Len(Grupos(k)) |-> "new"]
    /\ resultados' = <<>>
    /\ removed' = {}

InitLocal ==
    /\ df \in Tables
    /\ gabarito \in Gabaritos
    /\ record = None
    /\ columns = AllColumns
    /\ MetricsOff
    /\ ToolsOff
    /\ max_proc \in 0..MaxProc
    /\ pc = "for"
    /\ metric = 1
    /\ launched = 0
    /\ processos = <<>>
    /\ scan_i = 1
    /\ join_j = 1
    /\ proc = [p \in 1..Len(Grupos(1)) |-> "new"]
    /\ resultados = <<>>
    /\ returned = [k \in 1..3 |-> None]
    /\ died = {}
    /\ removed = {}
    /\ QueueOff
    /\ ProducerOff

\* for grupo in grupos: p = Process(...); p.start(); processos.append(p)
LaunchNext ==
    /\ pc = "for"
    /\ launched < Len(Grupos(metric))
    /\ launched' = launched + 1
    /\ proc' = [proc EXCEPT ![launched + 1] = "alive"]
    /\ processos' = Append(processos, launched + 1)
    /\ pc' = "while"
    /\ UNCHANGED <<inputVars, metricVars, toolVars, max_proc, metric, scan_i, join_j, resultados,
                   returned, died, removed>>
    /\ UNCHANGED <<queueVars, prodVars>>

\* the for loop over grupos is exhausted
ForExit ==
    /\ pc = "for"
    /\ launched = Len(Grupos(metric))
    /\ pc' = "join"
    /\ join_j' = 1
    /\ UNCHANGED <<inputVars, metricVars, toolVars, max_proc, metric, launched, processos, scan_i,
                   proc, resultados, returned, died, removed>>
    /\ UNCHANGED <<queueVars, prodVars>>

\* while len(processos) >= max_proc:
WhileTest ==
    /\ pc = "while"
    /\ IF WhileCond(Len(processos), max_proc)
       THEN pc' = "scan" /\ scan_i' = 1
       ELSE pc' = "for" /\ scan_i' = scan_i
    /\ UNCHANGED <<inputVars, metricVars, toolVars, max_proc, metric, launched, processos, join_j,
                   proc, resultados, returned, died, removed>>
    /\ UNCHANGED <<queueVars, prodVars>>

\* for p in processos: if not p.is_alive(): processos.remove(p)
\* The list iterator keeps an index: after a removal the next element has
\* moved into the slot just visited and is skipped in this sweep.
ScanStep ==
    /\ pc = "scan"
    /\ scan_i <= Len(processos)
    /\ LET p == processos[scan_i]
       IN  IF ~IsAlive(proc[p])
           THEN processos' = Remove(processos, p) /\ removed' = removed \cup {p}
           ELSE UNCHANGED <<processos, removed>>
    /\ scan_i' = scan_i + 1
    /\ UNCHANGED <<inputVars, metricVars, toolVars, max_proc, pc, metric, launched, join_j, proc,
                   resultados, returned, died>>
    /\ UNCHANGED <<queueVars, prodVars>>

\* end of the sweep, then time.sleep(0.1)
ScanEnd ==
    /\ pc = "scan"
    /\ scan_i > Len(processos)
    /\ pc' = "while"
    /\ UNCHANGED <<inputVars, metricVars, toolVars, max_proc, metric, launched, processos, scan_i,
                   join_j, proc, resultados, returned, died, removed>>
    /\ UNCHANGED <<queueVars, prodVars>>

\* for p in processos: p.join()
JoinStep ==
    /\ pc = "join"
    /\ join_j <= Len(processos)
    /\ JoinReturns(proc[processos[join_j]])
    /\ join_j' = join_j + 1
    /\ UNCHANGED <<inputVars, metricVars, toolVars, max_proc, pc, metric, launched, processos,
                   scan_i, proc, resultados, returned, died, removed>>
    /\ UNCHANGED <<queueVars, prodVars>>

JoinExit ==
    /\ pc = "join"
    /\ join_j > Len(processos)
    /\ pc' = "ret"
    /\ UNCHANGED <<inputVars, metricVars, toolVars, max_proc, metric, launched, processos, scan_i,
                   join_j, proc, resultados, returned, died, removed>>
    /\ UNCHANGED <<queueVars, prodVars>>

\* processa_anomalias / processa_coocorrencias: return list(resultados)
ReturnList ==
    /\ pc = "ret"
    /\ metric < 3
    /\ returned' = [returned EXCEPT ![metric] = Some(resultados)]
    /\ NewCall(metric + 1)
    /\ pc' = "for"
    /\ UNCHANGED <<inputVars, metricVars, toolVars, max_proc, died>>
    /\ UNCHANGED <<queueVars, prodVars>>

\* processa_medias_moveis: return pd.concat(list(resultados))
ReturnConcat ==
    /\ pc = "ret"
    /\ metric = 3
    /\ resultados # <<>>
    /\ returned' = [returned EXCEPT ![3] = Some(Flatten(resultados))]
    /\ pc' = "end"
    /\ UNCHANGED <<inputVars, metricVars, toolVars, max_proc, metric, launched, processos, scan_i,
                   join_j, proc, resultados, died, removed>>
    /\ UNCHANGED <<queueVars, prodVars>>

\* pd.concat([]) raises ValueError("No objects to concatenate"); nothing in
\* main catches it
ConcatRaises ==
    /\ pc = "ret"
    /\ metric = 3
    /\ resultados = <<>>
    /\ pc' = "raised"
    /\ UNCHANGED <<inputVars, metricVars, toolVars, max_proc, metric, launched, processos, scan_i,
                   join_j, proc, resultados, returned, died, removed>>
    /\ UNCHANGED <<queueVars, prodVars>>

\* end_time = perf_counter(); duration_ms = (end_time - start_time) * 1000;
\* validar_corretude(df); json.dump(final_results, f)
WriteRecord ==
    /\ pc = "end"
    /\ \E elapsed \in 1..MaxElapsed :
          record' = Some([tempo |-> elapsed * 1000,
                          corretude |-> validar_corretude(DF, gabarito)])
    /\ pc' = "done"
    /\ UNCHANGED <<df, gabarito, columns, metricVars, toolVars, max_proc, metric, launched, processos, scan_i,
                   join_j, proc, resultados, returned, died, removed>>
    /\ UNCHANGED <<queueVars, prodVars>>

\* a worker process: func(grupo, output_list) reaches its extend / append
WorkerAppend(p) ==
    /\ proc[p] = "alive"
    /\ resultados' = ManagerExtend(resultados, Worker(metric, Grupos(metric)[p]))
    /\ proc' = [proc EXCEPT ![p] = "appended"]
    /\ UNCHANGED <<inputVars, metricVars, toolVars, max_proc, pc, metric, launched, processos,
                   scan_i, join_j, returned, died, removed>>
    /\ UNCHANGED <<queueVars, prodVars>>

\* the worker process exits after its target returned
WorkerExit(p) ==
    /\ proc[p] = "appended"
    /\ proc' = [proc EXCEPT ![p] = "exited"]
    /\ UNCHANGED <<inputVars, metricVars, toolVars, max_proc, pc, metric, launched, processos,
                   scan_i, join_j, resultados, returned, died, removed>>
    /\ UNCHANGED <<queueVars, prodVars>>

\* the worker process is killed (signal, out of memory) before it appended
WorkerDie(p) ==
    /\ proc[p] = "alive"
    /\ proc' = [proc EXCEPT ![p] = "died"]
    /\ died' = died \cup {<<metric, p>>}
    /\ UNCHANGED <<inputVars, metricVars, toolVars, max_proc, pc, metric, launched, processos,
                   scan_i, join_j, resultados, returned, removed>>
    /\ UNCHANGED <<queueVars, prodVars>>

NextLocal ==
    \/ LaunchNext
    \/ ForExit
    \/ WhileTest
    \/ ScanStep
    \/ ScanEnd
    \/ JoinStep
    \/ JoinExit
    \/ ReturnList
    \/ ReturnConcat
    \/ ConcatRaises
    \/ WriteRecord
    \/ \E p \in DOMAIN proc : WorkerAppend(p)
    \/ \E p \in DOMAIN proc : WorkerExit(p)
    \/ \E p \in DOMAIN proc : WorkerDie(p)

SpecLocal == InitLocal /\ [][NextLocal]_vars

\* The same run under fair scheduling: main is one thread that keeps
\* executing its next statement (the slot-wait loop only sleeps 0.1 s between
\* sweeps), and a worker process that was started keeps running until it has
\* sent its fragments and exited.  A kill from outside is not fair.
MainStep ==
    \/ LaunchNext
    \/ ForExit
    \/ WhileTest
    \/ ScanStep
    \/ ScanEnd
    \/ JoinStep
    \/ JoinExit
    \/ ReturnList
    \/ ReturnConcat
    \/ ConcatRaises
    \/ WriteRecord

LocalFairness ==
    /\ WF_vars(MainStep)
    /\ \A p \in 1..MaxRows :
          /\ WF_vars(p \in DOMAIN proc /\ WorkerAppend(p))
          /\ WF_vars(p \in DOMAIN proc /\ WorkerExit(p))

SpecLocalFair == InitLocal /\ [][NextLocal]_vars /\ LocalFairness

(***************************************************************************)
(* worker.py: main and callback, with the broker's side of task_queue.     *)
(* A consumer is a worker.py process; its callback runs for one delivered  *)
(* message at a time.  basic_consume is called without auto_ack, so a      *)
(* message stays unacknowledged until basic_ack and the broker requeues    *)
(* the unacknowledged messages of a consumer whose connection is gone.     *)
(***************************************************************************)
Consumers == DOMAIN cpc

Messages == DOMAIN body

RECURSIVE SetToSeq(_)
SetToSeq(S) ==
    IF S = {} THEN <<>>
    ELSE LET x == CHOOSE y \in S : \A z \in S : y <= z
         IN  <<x>> \o SetToSeq(S \ {x})

\* station ids a message may carry
RECURSIVE BodiesOfLen(_)
BodiesOfLen(n) ==
    IF n = 0 THEN { <<>> }
    ELSE { Append(b, e) : b \in BodiesOfLen(n - 1), e \in Range(StationOrder) }

\* a broker that ignores basic_qos
CanDeliverAlways(n) == TRUE

\* basic_qos(prefetch_count=1): the broker delivers to a consumer only while
\* it holds fewer than prefetch_count unacknowledged messages
CanDeliver(n) == n < PREFETCH_COUNT

\* if result:
ShouldStore(result) == result # None

\* redis_conn.hset("approach_b_results", station_id, value)
HSet(h, k, v) == [x \in (DOMAIN h) \cup {k} |-> IF x = k THEN v ELSE h[x]]

\* a callback that swallows the exception of process_station
RaiseSwallowed(outcome) == FALSE

\* an exception raised in callback leaves start_consuming and main: only
\* KeyboardInterrupt is caught, the process ends
RaiseEndsConsumer(outcome) == outcome.kind = "raise"

InitQueue ==
    /\ df \in Tables
    /\ gabarito = None
    /\ record = None
    /\ columns = AllColumns
    /\ MetricsOff
    /\ ToolsOff
    /\ PoolOff
    /\ body \in UNION { BodiesOfLen(n) : n \in 0..MaxMsgs }
    /\ queue = [m \in 1..Len(body) |-> m]
    /\ \E nc \in 1..MaxConsumers :
          /\ cpc = [c \in 1..nc |-> "idle"]
          /\ unacked = [c \in 1..nc |-> {}]
          /\ cur = [c \in 1..nc |-> 0]
          /\ res = [c \in 1..nc |-> None]
    /\ store = <<>>
    /\ acks = {}
    /\ calls = [m \in 1..Len(body) |-> 0]
    /\ ProducerOff

\* the broker delivers the message at the head of the queue
Deliver(c) ==
    /\ cpc[c] # "dead"
    /\ queue # <<>>
    /\ CanDeliver(Cardinality(unacked[c]))
    /\ unacked' = [unacked EXCEPT ![c] = @ \cup {Head(queue)}]
    /\ queue' = Tail(queue)
    /\ UNCHANGED <<inputVars, metricVars, toolVars, poolVars, prodVars, body, cpc, cur, res, store, acks, calls>>

\* callback(ch, method, properties, body): station_id = body.decode()
CallbackStart(c) ==
    /\ cpc[c] = "idle"
    /\ \E m \in unacked[c] :
          /\ cur' = [cur EXCEPT ![c] = m]
          /\ cpc' = [cpc EXCEPT ![c] = "called"]
    /\ UNCHANGED <<inputVars, metricVars, toolVars, poolVars, prodVars, body, queue, unacked, res, store, acks, calls>>

\* result = process_station(station_id)
CallProcessStation(c) ==
    /\ cpc[c] = "called"
    /\ calls' = [calls EXCEPT ![cur[c]] = @ + 1]
    /\ LET outcome == process_station(df, body[cur[c]])
       IN  IF RaiseEndsConsumer(outcome)
           THEN /\ cpc' = [cpc EXCEPT ![c] = "dead"]
                /\ queue' = SetToSeq(unacked[c]) \o queue
                /\ unacked' = [unacked EXCEPT ![c] = {}]
                /\ UNCHANGED res
           ELSE /\ cpc' = [cpc EXCEPT ![c] = "returned"]
                /\ res' = [res EXCEPT ![c] =
                              IF outcome.kind = "return" THEN outcome.value ELSE None]
                /\ UNCHANGED <<queue, unacked>>
    /\ UNCHANGED <<inputVars, metricVars, toolVars, poolVars, prodVars, body, cur, store, acks>>

\* if result: redis_conn.hset("approach_b_results", station_id, json.dumps(result))
StoreResult(c) ==
    /\ cpc[c] = "returned"
    /\ store' = IF ShouldStore(res[c])
                THEN HSet(store, body[cur[c]], json_dumps(res[c]))
                ELSE store
    /\ cpc' = [cpc EXCEPT ![c] = "stored"]
    /\ UNCHANGED <<inputVars, metricVars, toolVars, poolVars, prodVars, body, queue, unacked, cur, res, acks, calls>>

\* ch.basic_ack(delivery_tag=method.delivery_tag)
Ack(c) ==
    /\ cpc[c] = "stored"
    /\ unacked' = [unacked EXCEPT ![c] = @ \ {cur[c]}]
    /\ acks' = acks \cup
          { [msg |-> cur[c], station |-> body[cur[c]],
             returned |-> process_station(df, body[cur[c]]).kind = "return",
             result |-> res[c],
             stored |-> body[cur[c]] \in DOMAIN store] }
    /\ cpc' = [cpc EXCEPT ![c] = "idle"]
    /\ UNCHANGED <<inputVars, metricVars, toolVars, poolVars, prodVars, body, queue, cur, res, store, calls>>

\* the consumer is stopped or killed; the broker requeues what it held
ConsumerKilled(c) ==
    /\ cpc[c] # "dead"
    /\ cpc' = [cpc EXCEPT ![c] = "dead"]
    /\ queue' = SetToSeq(unacked[c]) \o queue
    /\ unacked' = [unacked EXCEPT ![c] = {}]
    /\ UNCHANGED <<inputVars, metricVars, toolVars, poolVars, prodVars, body, cur, res, store, acks, calls>>

NextQueue ==
    \/ \E c \in Consumers : Deliver(c)
    \/ \E c \in Consumers : CallbackStart(c)
    \/ \E c \in Consumers : CallProcessStation(c)
    \/ \E c \in Consumers : StoreResult(c)
    \/ \E c \in Consumers : Ack(c)
    \/ \E c \in Consumers : ConsumerKilled(c)

SpecQueue == InitQueue /\ [][NextQueue]_vars

\* The same queue under fair scheduling: the broker keeps delivering and a
\* consumer that is up keeps running its callback (start_consuming is a
\* loop, the callback a straight line of code); the stops and kills come
\* from outside, are not fair, and spare the consumer started first.
NextQueueFair ==
    \/ \E c \in Consumers : Deliver(c)
    \/ \E c \in Consumers : CallbackStart(c)
    \/ \E c \in Consumers : CallProcessStation(c)
    \/ \E c \in Consumers : StoreResult(c)
    \/ \E c \in Consumers : Ack(c)
    \/ \E c \in Consumers \ {1} : ConsumerKilled(c)

QueueFairness ==
    \A c \in 1..MaxConsumers :
        /\ WF_vars(c \in Consumers /\ Deliver(c))
        /\ WF_vars(c \in Consumers /\ CallbackStart(c))
        /\ WF_vars(c \in Consumers /\ CallProcessStation(c))
        /\ WF_vars(c \in Consumers /\ StoreResult(c))
        /\ WF_vars(c \in Consumers /\ Ack(c))

SpecQueueFair == InitQueue /\ [][NextQueueFair]_vars /\ QueueFairness

(***************************************************************************)
(* tasks.py and producer.py.                                               *)
(***************************************************************************)
\* g.to_json(orient="records", date_format="iso")
to_json(g) == [json |-> g]

\* pd.read_json(estacao_csv)
read_json(j) == j.json

\* calcular_percentual_anomalias(estacao_csv)
calcular_percentual_anomalias(estacao_csv) ==
    LET d == read_json(estacao_csv)
    IN  IF ~HasSensorColumns(DOMAIN d[1]) THEN [kind |-> "raise", exc |-> "KeyError"]
        ELSE [kind |-> "return", value |-> worker_anomalias(detectar_anomalias(d))]

\* calcular_periodos_coocorrencia(estacao_csv)
calcular_periodos_coocorrencia(estacao_csv) ==
    LET d == read_json(estacao_csv)
    IN  IF ~HasSensorColumns(DOMAIN d[1]) THEN [kind |-> "raise", exc |-> "KeyError"]
        ELSE [kind |-> "return",
              value |-> worker_coocorrencia(detectar_anomalias(d))[1]]

\* calcular_media_movel(regiao_csv): the region is read from the frame after
\* the anomalous readings were dropped; df["regiao"].iloc[0] on an empty
\* frame raises IndexError
calcular_media_movel(regiao_csv) ==
    LET raw == read_json(regiao_csv)
        d == detectar_anomalias(raw)
        kept == SelectSeq(d, LAMBDA r :
                    ~(r.temperatura_anormal \/ r.umidade_anormal \/ r.pressao_anormal))
    IN  IF ~HasSensorColumns(DOMAIN raw[1]) THEN [kind |-> "raise", exc |-> "KeyError"]
        ELSE IF kept = <<>> THEN [kind |-> "raise", exc |-> "IndexError"]
        ELSE [kind |-> "return", value |-> media_movel_frame(d)]

\* tasks_anomalias + tasks_cooc + tasks_moving_avg
all_tasks(d) ==
    LET estacoes == groupby(d, "id_estacao", StationOrder)
        regioes == groupby(d, "regiao", RegionOrder)
    IN  [i \in 1..Len(estacoes) |->
            [name |-> "calcular_percentual_anomalias", arg |-> to_json(estacoes[i])]]
        \o [i \in 1..Len(estacoes) |->
            [name |-> "calcular_periodos_coocorrencia", arg |-> to_json(estacoes[i])]]
        \o [i \in 1..Len(regioes) |->
            [name |-> "calcular_media_movel", arg |-> to_json(regioes[i])]]

RunTask(task) ==
    CASE task.name = "calcular_percentual_anomalias" ->
            calcular_percentual_anomalias(task.arg)
      [] task.name = "calcular_periodos_coocorrencia" ->
            calcular_periodos_coocorrencia(task.arg)
      [] task.name = "calcular_media_movel" -> calcular_media_movel(task.arg)

\* handlers of which only the TimeoutError one cancels the group
RevokesOnTimeoutOnly(outcome) == outcome = "timeout"

\* except TimeoutError: result.revoke(terminate=True)
\* except Exception as e: result.revoke(terminate=True)
RevokesGroup(outcome) == outcome \in {"timeout", "exception"}

\* a default of 0.0
DefaultZero == 1 - 1

\* duration_ms = -1.0
FAILURE_SENTINEL == -1

InitProducer ==
    /\ df \in Tables
    /\ gabarito \in Gabaritos
    /\ record = None
    /\ columns = AllColumns
    /\ MetricsOff
    /\ ToolsOff
    /\ PoolOff
    /\ QueueOff
    /\ ppc = "dispatch"
    /\ tstate = <<>>
    /\ duration_ms = None
    /\ get_outcome = "none"
    /\ revoked = FALSE

\* result = all_tasks.apply_async(); duration_ms = -1.0
Dispatch ==
    /\ ppc = "dispatch"
    /\ tstate' = [t \in 1..Len(all_tasks(df)) |-> "PENDING"]
    /\ duration_ms' = FAILURE_SENTINEL
    /\ ppc' = "wait"
    /\ UNCHANGED <<inputVars, metricVars, toolVars, poolVars, queueVars, get_outcome, revoked>>

\* apply_async raises (the broker cannot be reached): the script ends there
DispatchRaises ==
    /\ ppc = "dispatch"
    /\ ppc' = "raised"
    /\ UNCHANGED <<inputVars, metricVars, toolVars, poolVars, queueVars, tstate, duration_ms,
                   get_outcome, revoked>>

\* a Celery worker runs task t to its end
TaskRuns(t) ==
    /\ tstate[t] = "PENDING"
    /\ tstate' = [tstate EXCEPT ![t] =
                     IF RunTask(all_tasks(df)[t]).kind = "return"
                     THEN "SUCCESS" ELSE "FAILURE"]
    /\ UNCHANGED <<inputVars, metricVars, toolVars, poolVars, queueVars, ppc, duration_ms,
                   get_outcome, revoked>>

\* result.get(timeout=600) returns: every task succeeded;
\* duration_ms = (end_time - start_time) * 1000
GetReturns ==
    /\ ppc = "wait"
    /\ \A t \in DOMAIN tstate : tstate[t] = "SUCCESS"
    /\ \E elapsed \in 1..MaxElapsed : duration_ms' = elapsed * 1000
    /\ get_outcome' = "returned"
    /\ ppc' = "validate"
    /\ UNCHANGED <<inputVars, metricVars, toolVars, poolVars, queueVars, tstate, revoked>>

\* result.get re-raises the exception of a failed task: except Exception
GetRaises ==
    /\ ppc = "wait"
    /\ \E t \in DOMAIN tstate : tstate[t] = "FAILURE"
    /\ get_outcome' = "exception"
    /\ ppc' = "except"
    /\ UNCHANGED <<inputVars, metricVars, toolVars, poolVars, queueVars, tstate, duration_ms, revoked>>

\* 600 s pass with a task still not done: except TimeoutError
GetTimesOut ==
    /\ ppc = "wait"
    /\ \E t \in DOMAIN tstate : tstate[t] = "PENDING"
    /\ get_outcome' = "timeout"
    /\ ppc' = "except"
    /\ UNCHANGED <<inputVars, metricVars, toolVars, poolVars, queueVars, tstate, duration_ms, revoked>>

\* the except clause that caught what result.get raised:
\* result.revoke(terminate=True) cancels every task of the group not yet done
Revoke ==
    /\ ppc = "except"
    /\ IF RevokesGroup(get_outcome)
       THEN /\ tstate' = [t \in DOMAIN tstate |->
                            IF tstate[t] = "PENDING" THEN "REVOKED" ELSE tstate[t]]
            /\ revoked' = TRUE
       ELSE UNCHANGED <<tstate, revoked>>
    /\ ppc' = "validate"
    /\ UNCHANGED <<inputVars, metricVars, toolVars, poolVars, queueVars, duration_ms, get_outcome>>

\* df_validacao = detectar_anomalias(df); validar_corretude; json.dump; chmod
\* detectar_anomalias raises KeyError on a missing sensor column
ValidateAndWrite ==
    /\ ppc = "validate"
    /\ IF HasSensorColumns(columns)
       THEN /\ record' = Some([tempo |-> duration_ms,
                               corretude |->
                                   validar_corretude(detectar_anomalias(df), gabarito)])
            /\ ppc' = "done"
       ELSE /\ record' = record
            /\ ppc' = "raised"
    /\ UNCHANGED <<df, gabarito, columns, metricVars, toolVars, poolVars, queueVars, tstate, duration_ms,
                   get_outcome, revoked>>

NextProducer ==
    \/ Dispatch
    \/ DispatchRaises
    \/ \E t \in DOMAIN tstate : TaskRuns(t)
    \/ GetReturns
    \/ GetRaises
    \/ GetTimesOut
    \/ Revoke
    \/ ValidateAndWrite

SpecProducer == InitProducer /\ [][NextProducer]_vars

\* the producer started on a CSV with any of the headers
InitProducerAnyHeader ==
    /\ \E t \in Tables, h \in Headers : df = ReadCsv(t, h) /\ columns = h
    /\ gabarito \in Gabaritos
    /\ record = None
    /\ PoolOff
    /\ QueueOff
    /\ MetricsOff
    /\ ToolsOff
    /\ ppc = "dispatch"
    /\ tstate = <<>>
    /\ duration_ms = None
    /\ get_outcome = "none"
    /\ revoked = FALSE

SpecProducerAnyHeader == InitProducerAnyHeader /\ [][NextProducer]_vars

(***************************************************************************)
(* The metric engines side by side: each engine is run once on the same    *)
(* table and what it returns is kept in computed.  The tables are drawn    *)
(* from readings that put a reading on every bound, two sensors out of     *)
(* bounds in one reading, one sensor out of bounds, and two in-bounds      *)
(* readings of a station more than ten minutes apart.                      *)
(***************************************************************************)
MetricReadings ==
    << Reading(12, "STA-001", 27, 60, 1012),
       Reading(3, "STA-001", 50, 120, 1012),
       Reading(5, "STA-006", 45, 100, 940),
       Reading(5, "STA-001", 25, 60, 1100),
       Reading(0, "STA-001", 24, 0, 1060),
       Reading(7, "STA-002", -11, 50, 1010) >>

\* the tables of 1..MaxRows of these readings, in file order
MetricTables ==
    { SubTable(MetricReadings, keep) :
        keep \in { k \in SUBSET (DOMAIN MetricReadings) :
                     k # {} /\ Cardinality(k) <= MaxRows } }

\* what the workers of processa_* (k = 1, 2, 3) put on the manager list, one
\* group after the other
WorkerFragments(k) ==
    LET frags == Flatten([p \in 1..Len(Grupos(k)) |-> Worker(k, Grupos(k)[p])])
    IN  IF k = 3 THEN Flatten(frags) ELSE frags

InitMetrics ==
    /\ df \in MetricTables
    /\ gabarito = None
    /\ record = None
    /\ columns = AllColumns
    /\ PoolOff
    /\ QueueOff
    /\ ProducerOff
    /\ computed = <<>>
    /\ ToolsOff

Computes(f, value) ==
    /\ f \notin DOMAIN computed
    /\ computed' = HSet(computed, f, value)
    /\ UNCHANGED <<inputVars, poolVars, queueVars, prodVars, toolVars>>

\* process_local.py: worker_anomalias, worker_coocorrencia, worker_media_movel
RunWorkers ==
    Computes("workers", [anomalias |-> WorkerFragments(1),
                         coocorrencias |-> WorkerFragments(2),
                         medias_moveis |-> WorkerFragments(3)])

\* tasks.py: every task of the group the producer builds
RunTasks ==
    Computes("tasks", [t \in DOMAIN all_tasks(df) |->
                          [name |-> all_tasks(df)[t].name,
                           outcome |-> RunTask(all_tasks(df)[t])]])

\* process_spark.py: moving_avg and cooc
RunSpark ==
    Computes("spark", [moving_avg |-> spark_moving_avg(df), cooc |-> spark_cooc(df)])

\* metrics.py: calculate_metrics_sequentially and the structuring in __main__
RunReference ==
    Computes("reference",
             LET metrics == calculate_metrics_sequentially(df)
             IN  [metrics |-> metrics,
                  resultados_por_estacao |-> resultados_por_estacao(df, metrics)])

\* worker.py: process_station for every station id a message may carry
RunProcessStation ==
    Computes("process_station",
             [e \in Range(StationOrder) |-> process_station(df, e)])

NextMetrics ==
    \/ RunWorkers
    \/ RunTasks
    \/ RunSpark
    \/ RunReference
    \/ RunProcessStation

SpecMetrics == InitMetrics /\ [][NextMetrics]_vars

(***************************************************************************)
(* The statistical rule on its own: is_anomaly applied to the temperatura  *)
(* column of a one-station table.  The readings take two neighbouring      *)
(* values, and at most one reading of a table is set far away from them.   *)
(***************************************************************************)
BaseReadings == {20, 21}

FarReadings == {30}

InsertAt(s, pos, x) == SubSeq(s, 1, pos - 1) \o <<x>> \o SubSeq(s, pos, Len(s))

SeriesTable(series) ==
    [i \in DOMAIN series |-> Reading(i - 1, "STA-001", series[i], 60, 1012)]

InitIsAnomaly ==
    /\ \E n \in 1..MaxSeries :
          \/ \E b \in [1..n -> BaseReadings] : df = SeriesTable(b)
          \/ \E b \in [1..(n - 1) -> BaseReadings], pos \in 1..n, x \in FarReadings :
                df = SeriesTable(InsertAt(b, pos, x))
    /\ gabarito = None
    /\ record = None
    /\ columns = AllColumns
    /\ PoolOff
    /\ QueueOff
    /\ ProducerOff
    /\ computed = <<>>
    /\ ToolsOff

\* is_anomaly(series) for the temperatura column
RunIsAnomaly == Computes("is_anomaly", is_anomaly(Column(df, "temperatura")))

NextIsAnomaly == RunIsAnomaly

SpecIsAnomaly == InitIsAnomaly /\ [][NextIsAnomaly]_vars

(***************************************************************************)
(* compare_results.py.  A decoded JSON value carries its Python type; a    *)
(* float is held in units of 1e-9, a dict as a function of its keys, a     *)
(* list as a sequence.  A path is the sequence of the keys and indexes     *)
(* the printed path is made of.                                            *)
(***************************************************************************)
MaxItems == 1

NANO == 1000000000

PyFloat(units) == [type |-> "float", val |-> units]

PyInt(n) == [type |-> "int", val |-> n]

PyDict(items) == [type |-> "dict", val |-> items]

PyList(items) == [type |-> "list", val |-> items]

isinstance(v, type) == v.type = type

\* sorted(list(keys1)): the keys of the documents in Python's string order
KeyOrder ==
    << "Norte", "media_movel_por_regiao", "percentual_anomalias", "periodos_concorrentes",
       "resultados_por_estacao", "temperatura", "tempo_execucao_ms" >>

sorted_keys(keys) == SelectSeq(KeyOrder, LAMBDA k : k \in keys)

\* f"[{i}]" of enumerate: the index as it is printed in a path
IndexText == << "[0]", "[1]", "[2]" >>

\* the value of a number in units of 1e-9
Units(v) == IF v.type = "int" THEN v.val * NANO ELSE v.val

IsNumber(v) == v.type \in {"int", "float"}

\* Python's v1 == v2 on decoded JSON: numbers by value whatever their type,
\* dicts by keys and values, lists by length and items
RECURSIVE PyEq(_, _)
PyEq(v1, v2) ==
    IF IsNumber(v1) /\ IsNumber(v2) THEN Units(v1) = Units(v2)
    ELSE IF v1.type # v2.type THEN FALSE
    ELSE IF v1.type = "dict"
         THEN /\ DOMAIN v1.val = DOMAIN v2.val
              /\ \A k \in DOMAIN v1.val : PyEq(v1.val[k], v2.val[k])
    ELSE /\ Len(v1.val) = Len(v2.val)
         /\ \A i \in DOMAIN v1.val : PyEq(v1.val[i], v2.val[i])

\* math.isclose(a, b, rel_tol=1e-9, abs_tol=1e-9) on units of 1e-9:
\* |a - b| <= max(1e-9 * max(|a|, |b|), 1e-9)
isclose(a, b) ==
    LET larger == IF Abs(a) >= Abs(b) THEN Abs(a) ELSE Abs(b)
    IN  \/ Abs(a - b) <= 1
        \/ Abs(a - b) <= larger \div NANO

\* what a comparison hands back: the boolean it returns and the lines it
\* printed, one entry per line, in order
Same == [equal |-> TRUE, report |-> <<>>]

Differs(kind, path) ==
    [equal |-> FALSE, report |-> << [kind |-> kind, path |-> path] >>]

\* are_equal = False after a failed comparison, the printed lines kept
Both(r1, r2) == [equal |-> r1.equal /\ r2.equal, report |-> r1.report \o r2.report]

compare_values(v1, v2, path) ==
    IF isinstance(v1, "float") /\ isinstance(v2, "float")
    THEN IF ~isclose(v1.val, v2.val) THEN Differs("value", path) ELSE Same
    ELSE IF ~PyEq(v1, v2) THEN Differs("value", path) ELSE Same

\* the loop "for i, (item1, item2) in enumerate(zip(val1, val2))"
RECURSIVE compare_items(_, _, _, _)
compare_items(val1, val2, new_path, i) ==
    IF i > Len(val1) THEN Same
    ELSE Both(compare_values(val1[i], val2[i], new_path \o <<IndexText[i]>>),
              compare_items(val1, val2, new_path, i + 1))

\* a comparison that gives up at the first key whose values differ
RECURSIVE compare_dicts_first(_, _, _)
compare_dicts_first(d1, d2, path) ==
    IF DOMAIN d1.val # DOMAIN d2.val THEN Differs("keys", path)
    ELSE LET keys == sorted_keys(DOMAIN d1.val)
             RECURSIVE loop(_)
             loop(n) ==
                 IF n > Len(keys) THEN Same
                 ELSE LET key == keys[n]
                          new_path == path \o <<key>>
                          val1 == d1.val[key]
                          val2 == d2.val[key]
                          here ==
                              IF key = "tempo_execucao_ms" THEN Same
                              ELSE IF isinstance(val1, "dict") /\ isinstance(val2, "dict")
                                   THEN compare_dicts_first(val1, val2, new_path)
                              ELSE IF isinstance(val1, "list") /\ isinstance(val2, "list")
                                   THEN IF Len(val1.val) # Len(val2.val)
                                        THEN Differs("length", new_path)
                                        ELSE compare_items(val1.val, val2.val, new_path, 1)
                              ELSE compare_values(val1, val2, new_path)
                      IN  IF here.equal THEN loop(n + 1) ELSE here
         IN  loop(1)

\* compare_dicts(d1, d2, path): d1 and d2 are dicts
RECURSIVE compare_dicts(_, _, _)
compare_dicts(d1, d2, path) ==
    IF DOMAIN d1.val # DOMAIN d2.val THEN Differs("keys", path)
    ELSE LET keys == sorted_keys(DOMAIN d1.val)
             RECURSIVE loop(_)
             loop(n) ==
                 IF n > Len(keys) THEN Same
                 ELSE LET key == keys[n]
                          new_path == path \o <<key>>
                          val1 == d1.val[key]
                          val2 == d2.val[key]
                          here ==
                              IF key = "tempo_execucao_ms" THEN Same
                              ELSE IF isinstance(val1, "dict") /\ isinstance(val2, "dict")
                                   THEN compare_dicts(val1, val2, new_path)
                              ELSE IF isinstance(val1, "list") /\ isinstance(val2, "list")
                                   THEN IF Len(val1.val) # Len(val2.val)
                                        THEN Differs("length", new_path)
                                        ELSE compare_items(val1.val, val2.val, new_path, 1)
                              ELSE compare_values(val1, val2, new_path)
                      IN  Both(here, loop(n + 1))
         IN  loop(1)

\* main from line 80 on, both files read and decoded: keys() exists on a
\* dict only, and the call of compare_dicts reads d1.keys() and d2.keys()
\* before anything else
compare_main(d1, d2) ==
    IF isinstance(d1, "dict") /\ isinstance(d2, "dict")
    THEN [kind |-> "return", value |-> compare_dicts(d1, d2, <<>>)]
    ELSE [kind |-> "raise", exc |-> "AttributeError"]

\* --- the documents compared: the layout metrics.py writes, cut down to one
\* station and one region, and two documents that are no object at all
PercentLeaves ==
    << PyFloat(0), PyFloat(1), PyFloat(NANO), PyFloat(NANO + 1), PyInt(1) >>

CountLeaves == << PyInt(0), PyInt(1) >>

ItemLeaves == << PyFloat(0), PyFloat(1) >>

Tempos == << PyFloat(NANO), PyFloat(2 * NANO) >>

\* the files that do not hold an object
NonObjects == << PyList(<<>>), PyFloat(0) >>

\* one entry of a media_movel list: the number itself or the record of it
Item(leaf, wrapped) ==
    IF wrapped THEN PyDict([temperatura |-> ItemLeaves[leaf]]) ELSE ItemLeaves[leaf]

\* resultados_por_estacao of a station, periodos_concorrentes left out when
\* count = 0
StationResult(percent, count) ==
    IF count = 0
    THEN PyDict([percentual_anomalias |-> PercentLeaves[percent]])
    ELSE PyDict([percentual_anomalias |-> PercentLeaves[percent],
               periodos_concorrentes |-> CountLeaves[count]])

\* media_movel_por_regiao: no region at all, or the list of one region
RegionSeries(medias) ==
    IF medias = None THEN PyDict(<<>>) ELSE PyDict([Norte |-> PyList(medias[1])])

\* the document, media_movel_por_regiao left out when regions = None
Document(tempo, percent, count, regions) ==
    IF regions = None
    THEN PyDict([tempo_execucao_ms |-> Tempos[tempo],
                 resultados_por_estacao |-> StationResult(percent, count)])
    ELSE PyDict([tempo_execucao_ms |-> Tempos[tempo],
                 resultados_por_estacao |-> StationResult(percent, count),
                 media_movel_por_regiao |-> RegionSeries(regions[1])])

\* d is one of the decoded files
IsDecoded(d) ==
    \/ \E i \in DOMAIN NonObjects : d = NonObjects[i]
    \/ \E tempo \in DOMAIN Tempos, percent \in DOMAIN PercentLeaves,
          count \in 0..Len(CountLeaves) :
          \/ d = Document(tempo, percent, count, None)
          \/ d = Document(tempo, percent, count, Some(None))
          \/ \E n \in 0..MaxItems :
                \E leaf \in [1..n -> DOMAIN ItemLeaves], wrapped \in [1..n -> BOOLEAN] :
                   d = Document(tempo, percent, count,
                                Some(Some([i \in 1..n |-> Item(leaf[i], wrapped[i])])))

InitCompare ==
    /\ IsDecoded(data1)
    /\ IsDecoded(data2)
    /\ df = <<>>
    /\ gabarito = None
    /\ record = None
    /\ columns = AllColumns
    /\ PoolOff
    /\ QueueOff
    /\ ProducerOff
    /\ MetricsOff
    /\ DashboardOff

\* python compare_results.py <file1> <file2>
RunCompare == Computes("compare", compare_main(data1, data2))

NextCompare == RunCompare

SpecCompare == InitCompare /\ [][NextCompare]_vars

(***************************************************************************)
(* dashboard.py: the button "Iniciar Experimento", iniciar_experimentos,   *)
(* rodar_experimento and ler_resultado_experimento.  A file is None or its *)
(* content; the content of data/tempo_execucao.json is whether json.load   *)
(* decodes it and the value under "tempo".                                 *)
(***************************************************************************)
MaxExponent == 1

ABORDAGENS == << "local-processing", "message-broker", "spark-processing" >>

\* paralelismos = [2**i for i in range(max_paralelismo_exp + 1)]
Levels(max_paralelismo_exp) == [n \in 1..(max_paralelismo_exp + 1) |-> 2 ^ (n - 1)]

\* the n-th pass of "for p in paralelismos: for abordagem in ABORDAGENS"
Pass(n) ==
    [abordagem |-> ABORDAGENS[((n - 1) % Len(ABORDAGENS)) + 1],
     paralelismo |-> paralelismos[((n - 1) \div Len(ABORDAGENS)) + 1]]

Passes == Len(ABORDAGENS) * Len(paralelismos)

ResultFile(decodes, tempo) == [decodes |-> decodes, tempo |-> tempo]

\* what a backend leaves in data/tempo_execucao.json: nothing (None), a file
\* cut short, the failure record of the producer, or the time of the run
BackendWrites ==
    { None,
      Some(ResultFile(FALSE, 0)),
      Some(ResultFile(TRUE, FAILURE_SENTINEL)),
      Some(ResultFile(TRUE, 1500)) }

\* the file a session before this one may have left behind
Leftovers == { None, Some(ResultFile(TRUE, 2000)) }

\* a launch that leaves the old file where it is
keep_file(file) == file

\* if os.path.exists(OUTPUT_PATH): os.remove(OUTPUT_PATH)
remove_file(file) == None

\* ler_resultado_experimento()["tempo"], a time in seconds as a fraction
ler_resultado_experimento(file) ==
    IF file = None THEN Frac(-1, 1)
    ELSE IF ~file[1].decodes THEN Frac(-1, 1)
    ELSE IF file[1].tempo > 0 THEN Frac(file[1].tempo, 1000)
    ELSE Frac(-1, 1)

InitDashboard ==
    /\ \E max_paralelismo_exp \in 0..MaxExponent :
          paralelismos = Levels(max_paralelismo_exp)
    /\ dpc = "remove"
    /\ run_i = 1
    /\ output_file \in Leftovers
    /\ wrote = None
    /\ tempos = <<>>
    /\ df = <<>>
    /\ gabarito = None
    /\ record = None
    /\ columns = AllColumns
    /\ PoolOff
    /\ QueueOff
    /\ ProducerOff
    /\ MetricsOff
    /\ CompareOff

\* rodar_experimento, lines 58-59
RemoveOutput ==
    /\ dpc = "remove"
    /\ output_file' = remove_file(output_file)
    /\ dpc' = "launch"
    /\ UNCHANGED <<inputVars, poolVars, queueVars, prodVars, metricVars, cmpVars,
                   paralelismos, run_i, wrote, tempos>>

\* rodar_experimento, lines 68-103: subprocess.run returns when the backend
\* has ended
LaunchBackend ==
    /\ dpc = "launch"
    /\ \E written \in BackendWrites :
          /\ wrote' = written
          /\ output_file' = IF written = None THEN output_file ELSE written
    /\ dpc' = "read"
    /\ UNCHANGED <<inputVars, poolVars, queueVars, prodVars, metricVars, cmpVars,
                   paralelismos, run_i, tempos>>

\* rodar_experimento, lines 105-125, and the step of the loops of
\* iniciar_experimentos
AppendRow ==
    /\ dpc = "read"
    /\ tempos' = Append(tempos, [abordagem |-> Pass(run_i).abordagem,
                                  paralelismo |-> Pass(run_i).paralelismo,
                                  tempo_seg |-> ler_resultado_experimento(output_file)])
    /\ run_i' = run_i + 1
    /\ dpc' = IF run_i = Passes THEN "done" ELSE "remove"
    /\ UNCHANGED <<inputVars, poolVars, queueVars, prodVars, metricVars, cmpVars,
                   paralelismos, output_file, wrote>>

NextDashboard ==
    \/ RemoveOutput
    \/ LaunchBackend
    \/ AppendRow

SpecDashboard == InitDashboard /\ [][NextDashboard]_vars

(***************************************************************************)
(* process_spark.py: main, the two frames and then the run record.  The    *)
(* run of one backend on the same files: the pool, the producer or Spark.  *)
(***************************************************************************)
\* a run that writes no validation
no_validation(d, gabarito_file) == None

\* main lines 109-111: df_pandas = pd.read_csv(...); detectar_anomalias;
\* validar_corretude(df_pandas)
spark_validation(d, gabarito_file) ==
    validar_corretude(detectar_anomalias(d), gabarito_file)

InitSpark ==
    /\ df \in Tables
    /\ gabarito \in Gabaritos
    /\ record = None
    /\ columns = AllColumns
    /\ PoolOff
    /\ QueueOff
    /\ ProducerOff
    /\ MetricsOff
    /\ ToolsOff

\* main up to line 105: moving_avg and cooc
SparkFrames ==
    /\ pc = "off"
    /\ ppc = "off"
    /\ Computes("spark", [moving_avg |-> spark_moving_avg(df), cooc |-> spark_cooc(df)])

\* main lines 105-118: duration_ms, the validation and json.dump
SparkWriteRecord ==
    /\ pc = "off"
    /\ ppc = "off"
    /\ "spark" \in DOMAIN computed
    /\ record = None
    /\ \E elapsed \in 1..MaxElapsed :
          record' = Some([tempo |-> elapsed * 1000,
                          corretude |-> spark_validation(df, gabarito)])
    /\ UNCHANGED <<df, gabarito, columns, poolVars, queueVars, prodVars, metricVars,
                   toolVars>>

NextSpark ==
    \/ SparkFrames
    \/ SparkWriteRecord

SpecSpark == InitSpark /\ [][NextSpark]_vars

InitAnyBackend ==
    \/ InitLocal
    \/ InitProducer
    \/ InitSpark

NextAnyBackend ==
    \/ NextLocal
    \/ NextProducer
    \/ NextSpark

SpecAnyBackend == InitAnyBackend /\ [][NextAnyBackend]_vars

(***************************************************************************)
(* Properties of the bounded local pool (SpecLocal).                       *)
(***************************************************************************)
Count(s, x) == Cardinality({ i \in DOMAIN s : s[i] = x })

IsPermutation(s, t) ==
    /\ Len(s) = Len(t)
    /\ \A x \in Range(s) \cup Range(t) : Count(s, x) = Count(t, x)

Rank(order, x) == CHOOSE n \in DOMAIN order : order[n] = x

\* what the workers of call k send, group after group
Fragments(k) == Flatten([p \in 1..Len(Grupos(k)) |-> Worker(k, Grupos(k)[p])])

\* the value processa_* exposes when the fragments arrive in group order
InGroupOrder(k) == IF k = 3 THEN Flatten(Fragments(3)) ELSE Fragments(k)

NoneDiedIn(k) == \A d \in died : d[1] # k

\* C1: with max_proc >= 1, the worker processes started and still alive
\* never number more than max_proc.
C1_AliveWithinMaxProc ==
    max_proc >= 1 => Cardinality(Alive) <= max_proc

\* every slot taken, two or more processes alive at once
C1_Witness ==
    /\ max_proc >= 2
    /\ Cardinality(Alive) = max_proc
    /\ pc = "scan"

\* C2: when run_with_limited_processes returns, every process it started has
\* terminated, those removed from processos in the slot-wait loop included.
C2_JoinAll ==
    pc \in {"ret", "end", "done", "raised"} =>
        \A p \in DOMAIN proc : proc[p] # "new" /\ ~IsAlive(proc[p])

\* a return after one process left the list in the loop and another was joined
C2_Witness ==
    /\ pc = "ret"
    /\ removed # {}
    /\ processos # <<>>
    /\ Len(Grupos(metric)) >= 2

\* C3: whatever max_proc and whatever the order in which the workers reach
\* the manager list, a call none of whose workers died exposes the same
\* fragments, each once: a permutation of the fragments in group order, and
\* with max_proc = 1 exactly the fragments in group order.
C3_SameFragments ==
    \A k \in 1..3 :
        (returned[k] # None /\ NoneDiedIn(k)) =>
            /\ IsPermutation(returned[k][1], InGroupOrder(k))
            /\ max_proc = 1 => returned[k][1] = InGroupOrder(k)

\* a parallel call that exposed its fragments in another order than the
\* sequential one
C3_Witness ==
    /\ max_proc >= 2
    /\ died = {}
    /\ returned[1] # None
    /\ returned[1][1] # InGroupOrder(1)
    /\ Len(returned[1][1]) >= 6

\* C4: the exposed results are sorted by (station, sensor), by station and
\* by (region, timestamp).  The sensors are ranked as the workers list them.
SortedBy(s, key(_)) ==
    \A i \in 1..(Len(s) - 1) :
        LET a == key(s[i])
            b == key(s[i + 1])
        IN  a[1] < b[1] \/ (a[1] = b[1] /\ a[2] <= b[2])

C4_SortedResults ==
    /\ returned[1] # None =>
          SortedBy(returned[1][1],
                   LAMBDA f : <<Rank(StationOrder, f.id_estacao), Rank(SENSORS, f.sensor)>>)
    /\ returned[2] # None =>
          SortedBy(returned[2][1], LAMBDA f : <<Rank(StationOrder, f.id_estacao), 0>>)
    /\ returned[3] # None =>
          SortedBy(returned[3][1], LAMBDA f : <<Rank(RegionOrder, f.regiao), f.timestamp>>)

\* C5: a run in which a worker process died before appending its fragments
\* is not recorded as a normal completion with a positive elapsed time.
C5_DeadUnitFailsRun ==
    (died # {} /\ record # None) => record[1].tempo <= 0

\* C6: a run over an empty table raises nothing, every processa_* returns an
\* empty collection and main writes a record with a positive elapsed time.
C6_EmptyInputCompletes ==
    df = <<>> =>
        /\ pc # "raised"
        /\ \A k \in 1..3 : returned[k] # None => returned[k][1] = <<>>
        /\ pc = "done" => (record # None /\ record[1].tempo > 0)

(***************************************************************************)
(* Properties of the queue worker (SpecQueue).                             *)
(***************************************************************************)
HasData(e) == \E i \in DOMAIN df : df[i].id_estacao = e

Holders(m) == { c \in Consumers : m \in unacked[c] }

Acked(m) == \E a \in acks : a.msg = m

\* C7: on every basic_ack the store already holds an entry for the station
\* of the acknowledged message.
C7_AckOnlyAfterRecorded ==
    \A a \in acks : a.stored

\* C7, amended: basic_ack is called only after process_station returned, and
\* at the ack the store holds the station's entry exactly when a result was
\* returned; a message of a station without readings (result None) is
\* acknowledged with no entry.
C7_AckAfterProcessStation ==
    \A a \in acks : a.returned /\ (a.stored <=> a.result # None)

\* an acknowledged message of a station without readings, nothing stored
C7_Witness ==
    \E a \in acks :
        /\ ~HasData(a.station)
        /\ a.result = None
        /\ ~a.stored
        /\ calls[a.msg] >= 1

\* C8: a consumer holds at most one delivered, unacknowledged message, and a
\* message is at any time in exactly one place: ready in the queue, held by
\* one consumer, or acknowledged.
C8_OneMessagePerConsumer ==
    /\ \A c \in Consumers : Cardinality(unacked[c]) <= 1
    /\ \A m \in Messages :
          /\ Cardinality(Holders(m)) <= 1
          /\ Count(queue, m) + Cardinality(Holders(m)) + (IF Acked(m) THEN 1 ELSE 0) = 1

\* two consumers at work, each on a message of its own, a third message or
\* none waiting
C8_Witness ==
    \E c1, c2 \in Consumers :
        /\ c1 # c2
        /\ cpc[c1] \in {"called", "returned", "stored"}
        /\ cpc[c2] \in {"called", "returned", "stored"}
        /\ unacked[c1] # {} /\ unacked[c2] # {}
        /\ unacked[c1] # unacked[c2]

C10_SentinelUnlessReturned ==
    /\ get_outcome = "timeout" => ppc # "raised"
    /\ ppc = "done" => record # None
    /\ record # None =>
          /\ record[1].tempo > 0 <=> get_outcome = "returned"
          /\ get_outcome # "returned" => record[1].tempo = -1

\* a run whose wait timed out with a task never completed, record written
C10_Witness ==
    /\ get_outcome = "timeout"
    /\ ppc = "done"
    /\ record # None
    /\ record[1].tempo = -1
    /\ \E t \in DOMAIN tstate : tstate[t] = "REVOKED"

\* C11: whenever result.get ended by the timeout or by another exception the
\* group has been revoked by the time the script validates and writes the
\* record, and a run whose result.get returned never revokes.
C11_RevokedOnFailurePaths ==
    /\ (get_outcome \in {"timeout", "exception"} /\ ppc \in {"validate", "done", "raised"})
          => revoked
    /\ record # None => (revoked <=> get_outcome # "returned")
    /\ get_outcome = "returned" => ~revoked

C11_Witness ==
    /\ get_outcome = "exception"
    /\ revoked
    /\ record # None
    /\ \E t \in DOMAIN tstate : tstate[t] = "REVOKED"

\* C12: when result.get re-raised the exception of a failed task, no other
\* task of the group has been revoked.
C12_SiblingsRunToCompletion ==
    (get_outcome = "exception" /\ \E t \in DOMAIN tstate : tstate[t] = "FAILURE")
        => \A u \in DOMAIN tstate : tstate[u] # "REVOKED"

\* C13: in a run whose CSV lacks a sensor column no task is ever sent to the
\* queue.
C13_FailFastOnMissingSensor ==
    ~HasSensorColumns(columns) => DOMAIN tstate = {}

(***************************************************************************)
(* Properties of the metric engines (SpecMetrics).                         *)
(***************************************************************************)
Has(f) == f \in DOMAIN computed

\* the co-occurrence count the pool worker reported for station e
LocalCooc(e) ==
    SelectSeq(computed["workers"].coocorrencias,
              LAMBDA r : r.id_estacao = e)[1].periodos_multianomalias_10min

\* the number of rows of Spark's cooc frame for station e
SparkCooc(e) == Cardinality({ r \in computed["spark"].cooc : r.id_estacao = e })

\* C14: on the same table the pool workers and the Spark frames give every
\* station the same co-occurrence count and every region the same
\* moving-average values.
C14_PoolAndSparkAgree ==
    (Has("workers") /\ Has("spark")) =>
        /\ \A e \in StationsOf(df) : LocalCooc(e) = SparkCooc(e)
        /\ { <<r.regiao, r.temperatura, r.umidade, r.pressao>> :
                r \in Range(computed["workers"].medias_moveis) }
           = { <<r.regiao, r.media_temperatura, r.media_umidade, r.media_pressao>> :
                r \in computed["spark"].moving_avg }

\* the sensors with a reading of station e in fixed window b that flag marks
HotSensors(e, b, flag(_, _)) ==
    { sensor \in Range(SENSORS) :
        \E i \in DOMAIN df : /\ df[i].id_estacao = e
                             /\ df[i].timestamp \div 10 = b
                             /\ flag(i, sensor) }

\* the fixed 10-minute windows the readings of station e fall in
WindowsOf(e) == { df[i].timestamp \div 10 : i \in { j \in DOMAIN df : df[j].id_estacao = e } }

\* brute-force scan: fixed windows of e with two distinct flagged sensors
BruteForce(e, flag(_, _)) ==
    Cardinality({ b \in WindowsOf(e) :
        \E s1, s2 \in HotSensors(e, b, flag) : s1 # s2 })

StatFlag(i, sensor) == anomaly_mask_df(df)[i][sensor]

FixedFlag(i, sensor) == Anormal(df[i], sensor)

\* C15: the reference engine and process_station report for every station
\* with readings the brute-force number of fixed windows holding flagged
\* readings of two distinct sensors (0 when there is none).
C15_CoocEqualsBruteForce ==
    /\ Has("reference") =>
          \A e \in StationsOf(df) :
             computed["reference"].resultados_por_estacao[e].periodos_concorrentes
                = BruteForce(e, StatFlag)
    /\ Has("process_station") =>
          \A e \in StationsOf(df) :
             /\ computed["process_station"][e].kind = "return"
             /\ computed["process_station"][e].value[1].periodos_concorrentes
                   = BruteForce(e, StatFlag)

\* the outcomes of the tasks of one name, in dispatch order
TaskOutcomes(name) ==
    LET ts == SelectSeq(computed["tasks"], LAMBDA t : t.name = name)
    IN  [i \in DOMAIN ts |-> ts[i].outcome]

\* C16: worker_coocorrencia and calcular_periodos_coocorrencia report the
\* number of fixed windows with more than one hot sensor, which is at most
\* the number of fixed windows the station's readings span.
C16_OncePerFixedWindow ==
    /\ Has("workers") =>
          \A e \in StationsOf(df) :
             /\ LocalCooc(e) = BruteForce(e, FixedFlag)
             /\ LocalCooc(e) <= Cardinality(WindowsOf(e))
    /\ Has("tasks") =>
          \A o \in Range(TaskOutcomes("calcular_periodos_coocorrencia")) :
             /\ o.kind = "return"
             /\ o.value.periodos_multianomalias_10min
                   = BruteForce(o.value.id_estacao, FixedFlag)
             /\ o.value.periodos_multianomalias_10min
                   <= Cardinality(WindowsOf(o.value.id_estacao))

\* d without its row i
RemoveAt(d, i) == SubTable(d, (DOMAIN d) \ {i})

AnyAnormal(r) == \E sensor \in Range(SENSORS) : Anormal(r, sensor)

\* the readings of d in bounds on all three sensors
InBounds(d) == SelectSeq(d, LAMBDA r : ~AnyAnormal(r))

\* the rows worker_media_movel yields over the region groups of table d
PoolMediasOf(d) ==
    LET regioes == groupby(detectar_anomalias(d), "regiao", RegionOrder)
    IN  Flatten([n \in 1..Len(regioes) |-> media_movel_frame(regioes[n])])

\* what calcular_media_movel does for each region group of table d
TaskMediasOf(d) ==
    LET regioes == groupby(d, "regiao", RegionOrder)
    IN  [n \in 1..Len(regioes) |-> calcular_media_movel(to_json(regioes[n]))]

\* whether one of the calls raised, and the rows of those that returned
ReturnedRows(outcomes) ==
    LET ok == SelectSeq(outcomes, LAMBDA o : o.kind = "return")
    IN  [raised |-> Len(ok) < Len(outcomes),
         rows |-> Flatten([n \in DOMAIN ok |-> ok[n].value])]

\* C17: worker_media_movel and calcular_media_movel yield one row per
\* reading in bounds on all three sensors, and the series they yield is the
\* same after any one out-of-bounds reading is taken out of the table.
C17_OnlyInBoundsReadingsCount ==
    /\ Has("workers") =>
          /\ Len(computed["workers"].medias_moveis) = Len(InBounds(df))
          /\ \A i \in DOMAIN df :
                AnyAnormal(df[i]) =>
                    PoolMediasOf(RemoveAt(df, i)) = computed["workers"].medias_moveis
    /\ Has("tasks") =>
          LET series == ReturnedRows(TaskOutcomes("calcular_media_movel"))
          IN  /\ ~series.raised
              /\ Len(series.rows) = Len(InBounds(df))
              /\ \A i \in DOMAIN df :
                    AnyAnormal(df[i]) =>
                        ReturnedRows(TaskMediasOf(RemoveAt(df, i))) = series

\* the readings each rule retains for the moving average, as row numbers
RetainedFixed == { i \in DOMAIN df : ~AnyAnormal(df[i]) }

RetainedStat == { i \in DOMAIN df : \A sensor \in Range(SENSORS) : ~StatFlag(i, sensor) }

\* a moving-average series as (region, timestamp, three means) per reading
PoolSeries(rows) ==
    [i \in DOMAIN rows |->
        <<rows[i].regiao, rows[i].timestamp,
          rows[i].temperatura, rows[i].umidade, rows[i].pressao>>]

ReferenceSeries(rows) ==
    [i \in DOMAIN rows |->
        <<rows[i].regiao, rows[i].timestamp, rows[i].temperatura_media_movel,
          rows[i].umidade_media_movel, rows[i].pressao_media_movel>>]

\* C18: when both rules retain the same readings, the pool worker, the Celery
\* task and the reference engine give every retained reading the same rolling
\* means.
C18_SameWindowPolicy ==
    (Has("reference") /\ RetainedFixed = RetainedStat) =>
        LET ref == ReferenceSeries(computed["reference"].metrics.media_movel_regiao)
        IN  /\ Has("workers") => PoolSeries(computed["workers"].medias_moveis) = ref
            /\ Has("tasks") =>
                  LET series == ReturnedRows(TaskOutcomes("calcular_media_movel"))
                  IN  ~series.raised => PoolSeries(series.rows) = ref

\* the readings of station e strictly outside [min, max] of the sensor
Outside(e, sensor) ==
    { i \in DOMAIN df : /\ df[i].id_estacao = e
                         /\ \/ df[i][sensor] < THRESHOLDS[sensor][1]
                            \/ df[i][sensor] > THRESHOLDS[sensor][2] }

ReadingsOf(e) == { i \in DOMAIN df : df[i].id_estacao = e }

\* the percentage fragments: one per (station with readings, sensor), each
\* 100 * outside / readings as a fraction within [0, 100]
PercentagesRight(frags) ==
    /\ Len(frags) = 3 * Cardinality(StationsOf(df))
    /\ \A e \in StationsOf(df), sensor \in Range(SENSORS) :
          \E n \in DOMAIN frags : frags[n].id_estacao = e /\ frags[n].sensor = sensor
    /\ \A n \in DOMAIN frags :
          LET f == frags[n]
              total == Cardinality(ReadingsOf(f.id_estacao))
              out == Cardinality(Outside(f.id_estacao, f.sensor))
              pct == f.percentual_anomalias
          IN  /\ total > 0
              /\ pct.num * total = 100 * out * pct.den
              /\ 0 <= pct.num /\ pct.num <= 100 * pct.den
              /\ out = 0 => pct.num = 0

\* the fragments the calcular_percentual_anomalias tasks returned
TaskPercentages ==
    ReturnedRows(TaskOutcomes("calcular_percentual_anomalias"))

\* C19: every percentage fragment of worker_anomalias and of
\* calcular_percentual_anomalias is 100 * (readings strictly outside the
\* closed interval) / (readings) of its station and sensor, within [0, 100],
\* 0 when no reading is outside, and exists only for stations with readings.
C19_PercentageOfOutsideReadings ==
    /\ Has("workers") => PercentagesRight(computed["workers"].anomalias)
    /\ Has("tasks") => /\ ~TaskPercentages.raised
                       /\ PercentagesRight(TaskPercentages.rows)

\* both engines ran on a table where a station has a percentage strictly
\* between 0 and 100 and a sensor with a reading on its bound and 0 percent
C19_Witness ==
    /\ Has("workers")
    /\ Has("tasks")
    /\ \E n \in DOMAIN TaskPercentages.rows :
          LET pct == TaskPercentages.rows[n].percentual_anomalias
          IN  0 < pct.num /\ pct.num < 100 * pct.den /\ pct.den > 1
    /\ \E n \in DOMAIN computed["workers"].anomalias :
          LET f == computed["workers"].anomalias[n]
          IN  /\ f.percentual_anomalias.num = 0
              /\ \E i \in ReadingsOf(f.id_estacao) :
                    df[i][f.sensor] \in { THRESHOLDS[f.sensor][1], THRESHOLDS[f.sensor][2] }

(***************************************************************************)
(* Properties of the statistical rule (SpecIsAnomaly).                     *)
(***************************************************************************)
Temperaturas == Column(df, "temperatura")

\* a reading x lies at least 10 standard deviations of the other readings
\* from their mean, and the other readings are not all equal: with m other
\* readings of sum S and Q = m * sum(y^2) - S^2 > 0,
\* (m * x - S)^2 * (m - 1) >= 100 * m * Q.  The sums over the other readings
\* are the sums over the whole series (sum, squares) less x and x^2.
Forced(x, n, sum, squares) ==
    LET m == n - 1
        S == sum - x
        Q == m * (squares - x * x) - S * S
    IN  /\ m >= 2
        /\ Q > 0
        /\ (m * x - S) * (m * x - S) * (m - 1) >= 100 * m * Q

\* the readings of the series that are forced
ForcedReadings(series) ==
    LET sum == SumSeq(series)
        squares == SumSeq([i \in DOMAIN series |-> series[i] * series[i]])
    IN  { k \in DOMAIN series : Forced(series[k], Len(series), sum, squares) }

\* C20 as stated: in every partition of at least 2 readings with exactly one
\* forced reading, is_anomaly flags that reading and no other.
C20_FlagsExactlyTheForced ==
    Has("is_anomaly") =>
        \A k \in DOMAIN df :
            ForcedReadings(Temperaturas) = {k} =>
                \A i \in DOMAIN df : computed["is_anomaly"][i] <=> i = k

\* C20: is_anomaly flags no reading of a partition of 2 to 10 readings, and
\* in a partition of at least 12 readings with exactly one forced reading it
\* flags that reading and no other.
C20_FlagsTheForcedFromTwelveReadings ==
    Has("is_anomaly") =>
        /\ (2 <= Len(df) /\ Len(df) <= 10) =>
               \A i \in DOMAIN df : ~computed["is_anomaly"][i]
        /\ Len(df) >= 12 =>
               \A k \in DOMAIN df :
                   ForcedReadings(Temperaturas) = {k} =>
                       \A i \in DOMAIN df : computed["is_anomaly"][i] <=> i = k

C20_Witness ==
    /\ Has("is_anomaly")
    /\ Len(df) >= 12
    /\ \E k \in DOMAIN df :
          /\ ForcedReadings(Temperaturas) = {k}
          /\ computed["is_anomaly"][k]
          /\ k > 1 /\ k < Len(df)

\* C21: when all readings of the series are equal, is_anomaly flags none of
\* them, and its result has one entry per reading.
C21_ConstantSeriesNeverFlagged ==
    Has("is_anomaly") =>
        /\ DOMAIN computed["is_anomaly"] = DOMAIN df
        /\ (\A i, j \in DOMAIN df : Temperaturas[i] = Temperaturas[j]) =>
               \A i \in DOMAIN df : ~computed["is_anomaly"][i]

(***************************************************************************)
(* Single-reading partitions (SpecMetrics).                                *)
(***************************************************************************)
\* stations and regions of the table with exactly one reading
SingleStations == { e \in StationsOf(df) : Cardinality(ReadingsOf(e)) = 1 }

RegionRows(r) == { i \in DOMAIN df : df[i].regiao = r }

SingleRegions ==
    { r \in { df[i].regiao : i \in DOMAIN df } : Cardinality(RegionRows(r)) = 1 }

TheReading(rows) == df[CHOOSE i \in rows : TRUE]

IsZeroOrHundred(pct) == pct.den = 1 /\ pct.num \in {0, 100}

\* the rows of a moving-average series for region r are the one row that
\* repeats the values of the region's single reading
IsTheReading(series, r, temp(_), umid(_), pres(_)) ==
    LET rows == SelectSeq(series, LAMBDA x : x.regiao = r)
        one == TheReading(RegionRows(r))
    IN  /\ Len(rows) = 1
        /\ temp(rows[1]) = Frac(one.temperatura, 1)
        /\ umid(rows[1]) = Frac(one.umidade, 1)
        /\ pres(rows[1]) = Frac(one.pressao, 1)

PoolTemp(x) == x.temperatura

PoolUmid(x) == x.umidade

PoolPres(x) == x.pressao

RefTemp(x) == x.temperatura_media_movel

RefUmid(x) == x.umidade_media_movel

RefPres(x) == x.pressao_media_movel

\* C22: for a station with a single reading every engine reports 0 or 100
\* percent per sensor and a co-occurrence count of 0, and for a region with a
\* single reading the moving average is that reading.
C22_SingleReadingPartition ==
    /\ Has("workers") =>
          /\ \A n \in DOMAIN computed["workers"].anomalias :
                computed["workers"].anomalias[n].id_estacao \in SingleStations =>
                    IsZeroOrHundred(computed["workers"].anomalias[n].percentual_anomalias)
          /\ \A e \in SingleStations : LocalCooc(e) = 0
          /\ \A r \in SingleRegions :
                IsTheReading(computed["workers"].medias_moveis, r,
                             PoolTemp, PoolUmid, PoolPres)
    /\ Has("reference") =>
          /\ \A e \in SingleStations :
                /\ \A sensor \in Range(SENSORS) :
                      IsZeroOrHundred(computed["reference"].resultados_por_estacao[e]
                                          .percentual_anomalias[sensor])
                /\ computed["reference"].resultados_por_estacao[e].periodos_concorrentes = 0
          /\ \A r \in SingleRegions :
                IsTheReading(computed["reference"].metrics.media_movel_regiao, r,
                             RefTemp, RefUmid, RefPres)
    /\ Has("process_station") =>
          \A e \in SingleStations :
              /\ computed["process_station"][e].kind = "return"
              /\ computed["process_station"][e].value[1].periodos_concorrentes = 0

(***************************************************************************)
(* The comparator (SpecCompare).                                           *)
(***************************************************************************)
Compared == computed["compare"]

\* the two values have the same key structure: dicts with the same keys,
\* lists of the same length, numbers where the other has a number
RECURSIVE SameShape(_, _)
SameShape(v1, v2) ==
    IF IsNumber(v1) \/ IsNumber(v2) THEN IsNumber(v1) /\ IsNumber(v2)
    ELSE IF v1.type # v2.type THEN FALSE
    ELSE IF v1.type = "dict"
         THEN /\ DOMAIN v1.val = DOMAIN v2.val
              /\ \A k \in DOMAIN v1.val : SameShape(v1.val[k], v2.val[k])
    ELSE /\ Len(v1.val) = Len(v2.val)
         /\ \A i \in DOMAIN v1.val : SameShape(v1.val[i], v2.val[i])

\* the numeric leaves of two values of the same shape, side by side, each
\* with the path that leads to it
RECURSIVE LeafPairs(_, _, _)
LeafPairs(v1, v2, path) ==
    IF IsNumber(v1) THEN << [path |-> path, left |-> Units(v1), right |-> Units(v2)] >>
    ELSE IF v1.type = "dict"
         THEN LET keys == sorted_keys(DOMAIN v1.val)
              IN  Flatten([n \in DOMAIN keys |->
                             LeafPairs(v1.val[keys[n]], v2.val[keys[n]],
                                       path \o <<keys[n]>>)])
    ELSE Flatten([i \in DOMAIN v1.val |->
                    LeafPairs(v1.val[i], v2.val[i], path \o <<IndexText[i]>>)])

Reported(path) ==
    \E j \in DOMAIN Compared.value.report : Compared.value.report[j].path = path

\* C23: two documents of the same key structure whose numeric leaves all
\* differ by at most 1e-9 (absolute or relative) are declared equal, wherever
\* the leaves sit and whether they are integers or floats; when a leaf
\* differs by 1.0 they are declared unequal and the path of that leaf is
\* reported.
C23_TolerantOnEveryLeaf ==
    (Has("compare") /\ Compared.kind = "return" /\ SameShape(data1, data2)) =>
        LET pairs == LeafPairs(data1, data2, <<>>)
        IN  /\ (\A i \in DOMAIN pairs : isclose(pairs[i].left, pairs[i].right))
                   => Compared.value.equal
            /\ \A i \in DOMAIN pairs :
                   Abs(pairs[i].left - pairs[i].right) = NANO =>
                       ~Compared.value.equal /\ Reported(pairs[i].path)

\* C24: whatever the two decoded files hold, an object or not, the comparison
\* ends by returning its verdict and its list of differences; it never
\* raises.
C24_NeverRaises ==
    Has("compare") => Compared.kind = "return"

\* the two values agree: same key structure, every numeric leaf within 1e-9
Within(v1, v2) ==
    /\ SameShape(v1, v2)
    /\ \A i \in DOMAIN LeafPairs(v1, v2, <<>>) :
          isclose(LeafPairs(v1, v2, <<>>)[i].left, LeafPairs(v1, v2, <<>>)[i].right)

\* somewhere in the two values, two dicts that stand at the same place have
\* different key sets
RECURSIVE KeysDiffer(_, _)
KeysDiffer(v1, v2) ==
    IF v1.type = "dict" /\ v2.type = "dict"
    THEN \/ DOMAIN v1.val # DOMAIN v2.val
         \/ \E k \in (DOMAIN v1.val) \cap (DOMAIN v2.val) : KeysDiffer(v1.val[k], v2.val[k])
    ELSE IF v1.type = "list" /\ v2.type = "list"
    THEN \E i \in (DOMAIN v1.val) \cap (DOMAIN v2.val) : KeysDiffer(v1.val[i], v2.val[i])
    ELSE FALSE

\* a printed difference lies at the path or below it
ReportedUnder(path) ==
    \E j \in DOMAIN Compared.value.report :
        LET printed == Compared.value.report[j].path
        IN  Len(printed) >= Len(path) /\ SubSeq(printed, 1, Len(path)) = path

\* in every pair of dicts the comparison walks through, each key whose two
\* values do not agree has a printed difference of its own
RECURSIVE SiblingsReported(_, _, _)
SiblingsReported(d1, d2, path) ==
    DOMAIN d1.val = DOMAIN d2.val =>
        \A k \in (DOMAIN d1.val) \ {"tempo_execucao_ms"} :
            /\ ~Within(d1.val[k], d2.val[k]) => ReportedUnder(path \o <<k>>)
            /\ (d1.val[k].type = "dict" /\ d2.val[k].type = "dict") =>
                   SiblingsReported(d1.val[k], d2.val[k], path \o <<k>>)

\* C25: two documents in which two dicts at the same place, at whatever
\* depth, have different key sets are declared unequal; and a difference of
\* key sets under one key does not end the comparison: every other key of
\* the same dict whose values differ is reported as well.
C25_KeyMismatchDoesNotStopSiblings ==
    (Has("compare") /\ Compared.kind = "return") =>
        /\ KeysDiffer(data1, data2) => ~Compared.value.equal
        /\ SiblingsReported(data1, data2, <<>>)

\* the regions of the two documents have different key sets, the percentage
\* of the station differs too, and both differences were printed
C25_Witness ==
    /\ Has("compare")
    /\ Compared.kind = "return"
    /\ DOMAIN data1.val = DOMAIN data2.val
    /\ "media_movel_por_regiao" \in DOMAIN data1.val
    /\ DOMAIN data1.val["media_movel_por_regiao"].val
          # DOMAIN data2.val["media_movel_por_regiao"].val
    /\ Len(Compared.value.report) = 2
    /\ Compared.value.report[1] = [kind |-> "keys", path |-> <<"media_movel_por_regiao">>]
    /\ Compared.value.report[2] =
          [kind |-> "value", path |-> <<"resultados_por_estacao", "percentual_anomalias">>]

(***************************************************************************)
(* The validation report (SpecLocal).                                      *)
(***************************************************************************)
\* the (timestamp, station, sensor) keys of the readings outside the fixed
\* bounds of the sensor
FlaggedKeys ==
    { GroundTruthKey(df[i].timestamp, df[i].id_estacao, sensor) :
        <<i, sensor>> \in { <<i, sensor>> \in (DOMAIN df) \X Range(SENSORS) :
                                i \in Outside(df[i].id_estacao, sensor) } }

\* C26: the record holds no validation report exactly when there is no
\* ground-truth file; otherwise the report counts the keys that are both in
\* the ground truth and among the flagged readings, which is at most the
\* number of ground-truth entries and at most the number of flagged keys.
C26_TruePositives ==
    record # None =>
        LET corretude == record[1].corretude
        IN  /\ (corretude = None) <=> (gabarito = None)
            /\ gabarito # None =>
                   /\ corretude[1].verdadeiros_positivos =
                          Cardinality(Range(gabarito[1]) \cap FlaggedKeys)
                   /\ corretude[1].verdadeiros_positivos <= Len(gabarito[1])
                   /\ corretude[1].verdadeiros_positivos <= Cardinality(FlaggedKeys)

\* a report was written for a table that holds both readings of the ground
\* truth, of which only one is outside its bounds
C26_Witness ==
    /\ record # None
    /\ gabarito # None
    /\ record[1].corretude # None
    /\ record[1].corretude[1].verdadeiros_positivos = 1
    /\ \A k \in DOMAIN gabarito[1] :
          \E i \in DOMAIN df : /\ df[i].timestamp = gabarito[1][k].timestamp
                               /\ df[i].id_estacao = gabarito[1][k].id_estacao

(***************************************************************************)
(* Partitions and their units (SpecLocal; the task list of the producer    *)
(* is a function of the same table).                                       *)
(***************************************************************************)
\* the groups hold every row of d once, each group the rows of one key
IsPartition(groups, d, col) ==
    /\ Len(Flatten(groups)) = Len(d)
    /\ \A i \in DOMAIN d :
          Cardinality({ n \in DOMAIN groups :
                          \E j \in DOMAIN groups[n] : groups[n][j] = d[i] }) = 1
    /\ \A n \in DOMAIN groups :
          /\ groups[n] # <<>>
          /\ \A j \in DOMAIN groups[n] : groups[n][j][col] = groups[n][1][col]
    /\ \A n, m \in DOMAIN groups : n # m => groups[n][1][col] # groups[m][1][col]

Disjoint(g1, g2) == Range(g1) \cap Range(g2) = {}

\* the partitions the tasks of one name were built from
TaskArgs(name) ==
    LET tasks == SelectSeq(all_tasks(df), LAMBDA t : t.name = name)
    IN  [n \in DOMAIN tasks |-> read_json(tasks[n].arg)]

\* C27: in every pass of the pool the groups are a partition of the table
\* by station (by region for the moving averages), every group started so far
\* has one process and no two living processes hold a common reading; the
\* tasks the producer builds for one metric hold the groups of the same
\* partition, one task per group.
C27_ExclusivePartitions ==
    /\ \A k \in 1..3 :
          IsPartition(Grupos(k), DF, IF k = 3 THEN "regiao" ELSE "id_estacao")
    /\ pc \notin {"off", "done", "raised"} =>
          /\ DOMAIN proc = DOMAIN Grupos(metric)
          /\ \A p \in DOMAIN proc : (proc[p] # "new") <=> (p <= launched)
          /\ \A i, j \in DOMAIN processos :
                i # j => processos[i] # processos[j]
          /\ Range(processos) \subseteq 1..launched
          /\ \A p, q \in Alive :
                p # q => Disjoint(Grupos(metric)[p], Grupos(metric)[q])
          /\ pc \in {"join", "ret"} => launched = Len(Grupos(metric))
    /\ IsPartition(TaskArgs("calcular_percentual_anomalias"), df, "id_estacao")
    /\ IsPartition(TaskArgs("calcular_periodos_coocorrencia"), df, "id_estacao")
    /\ IsPartition(TaskArgs("calcular_media_movel"), df, "regiao")

\* two processes of one pass are alive at the same time, each with the
\* readings of its own station
C27_Witness ==
    /\ pc \notin {"off", "done", "raised"}
    /\ Cardinality(Alive) = 2
    /\ Len(df) = MaxRows
    /\ \A p, q \in Alive : p # q => Disjoint(Grupos(metric)[p], Grupos(metric)[q])

(***************************************************************************)
(* The timing store of the dashboard (SpecDashboard).                      *)
(***************************************************************************)
\* the time a row must carry for what the backend of its run wrote
TimeOf(written) ==
    IF written # None /\ written[1].decodes /\ written[1].tempo > 0
    THEN Frac(written[1].tempo, 1000)
    ELSE Frac(-1, 1)

\* C28: the store holds one row per pass made so far, in the order of the
\* passes, hence exactly one row per (approach, parallelism) once the loops
\* are over; the row just appended carries the time its own backend wrote,
\* or -1 when that backend left no readable file or a time that is not
\* positive.
C28_OneRowPerRunWithOwnTime ==
    dpc # "off" =>
        /\ Len(tempos) = run_i - 1
        /\ \A k \in DOMAIN tempos :
              /\ tempos[k].abordagem = Pass(k).abordagem
              /\ tempos[k].paralelismo = Pass(k).paralelismo
        /\ dpc = "done" =>
              \A a \in Range(ABORDAGENS), p \in Range(paralelismos) :
                 Cardinality({ k \in DOMAIN tempos :
                                 tempos[k].abordagem = a /\ tempos[k].paralelismo = p }) = 1
        /\ (dpc \in {"remove", "done"} /\ tempos # <<>>) =>
              tempos[Len(tempos)].tempo_seg = TimeOf(wrote)

\* the loops are over; the first backend wrote nothing although an older
\* file lay there, and the last one wrote its time
C28_Witness ==
    /\ dpc = "done"
    /\ Len(paralelismos) > 1
    /\ tempos[1].tempo_seg = Frac(-1, 1)
    /\ tempos[Len(tempos)].tempo_seg = Frac(3, 2)
    /\ wrote = Some(ResultFile(TRUE, 1500))

(***************************************************************************)
(* Delivery in the queue worker (SpecQueueFair).                           *)
(***************************************************************************)
\* message m is enqueued and its station has readings in ALL_DATA
CarriesData(m) ==
    /\ m \in Messages
    /\ \E i \in DOMAIN df : df[i].id_estacao = body[m]

StoredAndAcked(m) ==
    /\ m \in Messages
    /\ body[m] \in DOMAIN store
    /\ \E a \in acks : a.msg = m

\* C29: no message is acknowledged before process_station has returned for
\* it, and with a consumer that is never stopped from outside every enqueued
\* message whose station has data eventually has its result in the store and
\* is acknowledged.
C29_EventuallyStoredAndAcked ==
    /\ [](\A a \in acks : a.returned)
    /\ \A m \in 1..MaxMsgs : CarriesData(m) ~> StoredAndAcked(m)

(***************************************************************************)
(* Regions with no reading left for the moving average (SpecMetrics).      *)
(***************************************************************************)
Regioes == groupby(df, "regiao", RegionOrder)

\* the regions of the table whose readings are all out of bounds on some
\* sensor, as positions in Regioes
EmptiedRegions ==
    { n \in DOMAIN Regioes : \A j \in DOMAIN Regioes[n] : AnyAnormal(Regioes[n][j]) }

\* C30: for a region whose readings are all anomalous on some sensor,
\* worker_media_movel appends a frame without rows and calcular_media_movel
\* returns an empty list; neither fails.
C30_EmptiedRegionYieldsEmptySeries ==
    \A n \in EmptiedRegions :
        /\ Has("workers") =>
              \A i \in DOMAIN computed["workers"].medias_moveis :
                  computed["workers"].medias_moveis[i].regiao # Regioes[n][1].regiao
        /\ Has("tasks") =>
              /\ TaskOutcomes("calcular_media_movel")[n].kind = "return"
              /\ TaskOutcomes("calcular_media_movel")[n].value = <<>>

(***************************************************************************)
(* Termination of run_with_limited_processes (SpecLocalFair).              *)
(***************************************************************************)
\* main is inside a call of run_with_limited_processes
InRunWithLimitedProcesses == pc \in {"for", "while", "scan", "join"}

\* the call has started a process for every group and has returned
RunReturned == pc = "ret" /\ launched = Len(Grupos(metric))

\* C31: whatever integer max_proc main was given, a call of
\* run_with_limited_processes whose worker processes all exit eventually has
\* started every group and returns.
C31_AlwaysTerminates == InRunWithLimitedProcesses ~> RunReturned

(***************************************************************************)
(* The validation value of a run record (SpecAnyBackend).                  *)
(***************************************************************************)
\* the validation the readings and the ground truth determine: none without
\* a ground-truth file, else the number of its keys among the flagged ones
ValidationOfInput ==
    IF gabarito = None THEN None
    ELSE Some([verdadeiros_positivos |->
                  Cardinality(Range(gabarito[1]) \cap FlaggedKeys)])

\* C32: whichever backend wrote the run record, with whatever parallelism
\* and outcome (the failure time -1 of the producer included), its
\* validation value is the one the raw readings and the ground truth
\* determine under the fixed bounds.
C32_ValidationIndependentOfBackend ==
    record # None => record[1].corretude = ValidationOfInput

\* the producer wrote the record of a run that failed or timed out, with the
\* validation of a table that holds a reading of the ground truth
C32_Witness ==
    /\ record # None
    /\ ppc = "done"
    /\ record[1].tempo = FAILURE_SENTINEL
    /\ record[1].corretude = Some([verdadeiros_positivos |-> 1])


====
